---- MODULE Spec2Model ----
(***************************************************************************)
(* AWS SSO access-graph analysis (report.sh).                              *)
(*                                                                         *)
(* The graph store holds User, Group, Account and PermissionSet vertices   *)
(* and MEMBER_OF, HAS_ACCESS_TO and HAS_PERMISSION edges.  The analyses    *)
(* of generate_report.py, build_report.py and toxic.py are traversals of   *)
(* that graph followed by Python post-processing.                          *)
(*                                                                         *)
(* Strings whose content is inspected (account names, permission-set       *)
(* names and ARNs) are sequences of one-character strings, so that         *)
(* lower(), "in", split, replace and title are computed, not assumed.      *)
(* Strings that are only passed through (user email / userName, group      *)
(* name) are TLA+ strings.                                                 *)
(***************************************************************************)
EXTENDS Integers, Sequences, FiniteSets, TLC

VARIABLES
    graph,   \* the content of the graph store: [V, E]
    name,    \* the string handed to a classification function
    result   \* the outcome of the last operation: [op, arg, raised, storeError, out]

vars == <<graph, name, result>>

----------------------------------------------------------------------------
(* Python str operations                                                   *)

UpperAlphabet ==
    <<"A","B","C","D","E","F","G","H","I","J","K","L","M",
      "N","O","P","Q","R","S","T","U","V","W","X","Y","Z">>

LowerAlphabet ==
    <<"a","b","c","d","e","f","g","h","i","j","k","l","m",
      "n","o","p","q","r","s","t","u","v","w","x","y","z">>

IsUpper(c) == \E i \in DOMAIN UpperAlphabet : UpperAlphabet[i] = c
IsLower(c) == \E i \in DOMAIN LowerAlphabet : LowerAlphabet[i] = c

\* the lower-case letter of every upper-case letter
LowerTable ==
    [c \in {UpperAlphabet[i] : i \in DOMAIN UpperAlphabet} |->
        LowerAlphabet[CHOOSE i \in DOMAIN UpperAlphabet : UpperAlphabet[i] = c]]

LowerChar(c) == IF c \in DOMAIN LowerTable THEN LowerTable[c] ELSE c

UpperChar(c) ==
    IF IsLower(c)
    THEN UpperAlphabet[CHOOSE i \in DOMAIN LowerAlphabet : LowerAlphabet[i] = c]
    ELSE c

\* the set of the elements of a list
SeqRange(s) == {s[i] : i \in DOMAIN s}

\* str.lower()
Lower(s) == [i \in DOMAIN s |-> LowerChar(s[i])]

\* pat in s
Contains(s, pat) ==
    \E i \in 1..(Len(s) - Len(pat) + 1) : SubSeq(s, i, i + Len(pat) - 1) = pat

\* s.startswith(pat)
StartsWith(s, pat) == Len(s) >= Len(pat) /\ SubSeq(s, 1, Len(pat)) = pat

\* any(pattern in s for pattern in patterns)
ContainsAny(s, patterns) == \E k \in DOMAIN patterns : Contains(s, patterns[k])

\* s.split('/')[-1]: what follows the last '/', the whole of s when it has none
LastSegment(s) ==
    LET slashes == {i \in DOMAIN s : s[i] = "/"}
    IN  IF slashes = {} THEN s
        ELSE SubSeq(s, (CHOOSE i \in slashes : \A j \in slashes : j <= i) + 1, Len(s))

\* s.replace('-', ' ')
DashToSpace(s) == [i \in DOMAIN s |-> IF s[i] = "-" THEN " " ELSE s[i]]

\* str.title(): a cased character is upper-cased when it follows an uncased
\* character (or starts the string) and lower-cased otherwise
Title(s) ==
    [i \in DOMAIN s |->
        IF i = 1 \/ ~(IsUpper(s[i-1]) \/ IsLower(s[i-1]))
        THEN UpperChar(s[i])
        ELSE LowerChar(s[i])]

----------------------------------------------------------------------------
(* Classification of names                                                 *)

ProdKeywords == << <<"p","r","o","d">>, <<"p","r","o","d","u","c","t","i","o","n">> >>

NonProdKeywords ==
    << <<"d","e","v">>,
       <<"d","e","v","e","l","o","p","m","e","n","t">>,
       <<"t","e","s","t">>,
       <<"s","t","a","g","e">>,
       <<"s","t","a","g","i","n","g">> >>

\* generate_report.determine_environment
determine_environment(account_name) ==
    LET account_lower == Lower(account_name)
    IN  IF ContainsAny(account_lower, ProdKeywords) THEN "Production"
        ELSE IF ContainsAny(account_lower, NonProdKeywords) THEN "Non-Production"
        ELSE "Other"

InlineNonProdKeywords ==
    << <<"d","e","v">>, <<"t","e","s","t">>, <<"s","t","a","g","e">> >>

\* the conditional expression of build_report.get_access_data
InlineEnvironment(account) ==
    IF Contains(Lower(account), <<"p","r","o","d">>) THEN "Production"
    ELSE IF ContainsAny(Lower(account), InlineNonProdKeywords) THEN "Non-Production"
    ELSE "Other"

ToxicNonProdMarkers ==
    << <<"n","o","n","-","p","r","o","d">>,
       <<"n","o","n","p","r","o","d">>,
       <<"n","o","n"," ","p","r","o","d">>,
       <<"-","d","e","v">>,
       <<"s","t","a","g","e">>,
       <<"t","e","s","t">> >>

\* the account classification loop of toxic.analyze_toxic_combinations:
\* "prod" for prod_accounts, "nonprod" for nonprod_accounts (the else branch
\* appends to nonprod_accounts as well)
ToxicAccountClass(account_name) ==
    IF ContainsAny(Lower(account_name), ToxicNonProdMarkers) THEN "nonprod"
    ELSE IF Contains(Lower(account_name), <<"p","r","o","d">>) THEN "prod"
    ELSE "nonprod"

RoPatterns ==
    << <<"r","e","a","d","o","n","l","y">>,
       <<"r","e","a","d","-","o","n","l","y">>,
       <<"v","i","e","w","e","r">>,
       <<"v","i","e","w","-","o","n","l","y">>,
       <<"r","e","a","d","_","o","n","l","y">> >>

\* toxic.get_permission_type
get_permission_type(permission_name) ==
    IF ContainsAny(Lower(permission_name), RoPatterns) THEN "ro" ELSE "rw"

InlineRoMarkers ==
    << <<"r","e","a","d","o","n","l","y">>,
       <<"r","e","a","d","-","o","n","l","y">>,
       <<"-","r","o">> >>

\* the access_type expression of toxic.analyze_toxic_combinations, over the
\* list of permission names of one access record
InlineAccessType(permission_names) ==
    IF \E k \in DOMAIN permission_names :
            ContainsAny(Lower(permission_names[k]), InlineRoMarkers)
    THEN "ro" ELSE "rw"

AdminPatterns ==
    << <<"a","d","m","i","n">>,
       <<"a","d","m","i","n","i","s","t","r","a","t","o","r">>,
       <<"p","o","w","e","r","u","s","e","r">>,
       <<"f","u","l","l","a","c","c","e","s","s">>,
       <<"s","e","c","u","r","i","t","y","a","d","m","i","n">>,
       <<"s","y","s","t","e","m","a","d","m","i","n">>,
       <<"o","r","g","a","n","i","z","a","t","i","o","n","a","d","m","i","n">> >>

\* the keywords sought in the name as it is written
IsAdminName_CaseSensitive(perm) == ContainsAny(perm, AdminPatterns)

\* the admin_permission_sets filter of toxic.analyze_toxic_combinations
IsAdminName(perm) == ContainsAny(Lower(perm), AdminPatterns)

\* build_report.clean_permission_set_name
clean_permission_set_name(arn) ==
    LET last   == LastSegment(arn)
        prefix == <<"p","s","-">>
        bare   == IF StartsWith(last, prefix) THEN SubSeq(last, 4, Len(last)) ELSE last
    IN  Title(DashToSpace(bare))

----------------------------------------------------------------------------
(* Bounds and inputs                                                       *)

\* at most this many MEMBER_OF edges in a graph (parallel edges counted)
MaxMemberships == 2

\* at most this many account assignments in a graph
MaxAssignments == 2

UserIds    == {"alice", "bob"}
GroupIds   == {"GroupA", "GroupB"}
AccountIds == {"acct1", "acct2", "acct3"}
PermSetIds == {"psAdmin", "psRO"}

\* an identifier no User vertex carries
UnknownUser == "nobody"

\* a wide organization has at most this many accounts of each environment
MaxWide == 6

\* the accounts of a wide organization, "prod-a", "prod-b", ... and
\* "dev-a", "dev-b", ...
WideProdIds == <<"pa", "pb", "pc", "pd", "pe", "pf", "pg", "ph">>
WideDevIds  == <<"da", "db", "dc", "dd", "de", "df", "dg", "dh">>

WideAccountIds == SeqRange(WideProdIds) \cup SeqRange(WideDevIds)

WideAccountName(a) ==
    IF \E i \in DOMAIN WideProdIds : WideProdIds[i] = a
    THEN <<"p","r","o","d","-">>
            \o <<LowerAlphabet[CHOOSE i \in DOMAIN WideProdIds : WideProdIds[i] = a]>>
    ELSE <<"d","e","v","-">>
            \o <<LowerAlphabet[CHOOSE i \in DOMAIN WideDevIds : WideDevIds[i] = a]>>

\* an account whose dump entry has no accountName: load_vertices stores ''
UnnamedAccount == "acct0"

AccountName ==
    [a \in AccountIds \cup WideAccountIds \cup {UnnamedAccount} |->
        CASE a = "acct1" -> <<"p","r","o","d","-","x">>
          [] a = "acct2" -> <<"d","e","v","-","y">>
          [] a = "acct3" -> <<"s","h","a","r","e","d">>
          [] a = UnnamedAccount -> <<>>
          [] OTHER       -> WideAccountName(a)]

PermSetName ==
    [p \in PermSetIds |->
        CASE p = "psAdmin" -> <<"S","e","c","u","r","i","t","y","A","d","m","i","n","-",
                                "F","u","l","l","A","c","c","e","s","s">>
          [] p = "psRO"    -> <<"R","e","a","d","O","n","l","y">>]

PermSetArn ==
    [p \in PermSetIds |->
        CASE p = "psAdmin" -> <<"i","/","p","s","-","a","d">>
          [] p = "psRO"    -> <<"i","/","p","s","-","r","o">>]

----------------------------------------------------------------------------
(* The graph store                                                         *)

Vertex(label, id) == [label |-> label, id |-> id]

\* the value of an edge's permissionSetArn when the edge has no such property
NoArn == <<>>

Edge(from, label, to, arn) == [from |-> from, label |-> label, to |-> to, arn |-> arn]

\* the properties load_vertices sets on a vertex of each label (userId,
\* groupId and accountId are not read by any analysis and are left out)
PropertyKeys(v) ==
    CASE v.label = "User"          -> {"email", "userName"}
      [] v.label = "Group"         -> {"groupName"}
      [] v.label = "Account"       -> {"accountName"}
      [] v.label = "PermissionSet" -> {"arn", "name"}

\* values(key) on a vertex: the list of the values of that property
Values(v, key) ==
    IF key \notin PropertyKeys(v) THEN <<>>
    ELSE CASE key = "email"       -> <<v.id>>
           [] key = "userName"    -> <<v.id>>
           [] key = "groupName"   -> <<v.id>>
           [] key = "accountName" -> <<AccountName[v.id]>>
           [] key = "arn"         -> <<PermSetArn[v.id]>>
           [] key = "name"        -> <<PermSetName[v.id]>>

\* the label of the vertices the loader lets an edge of each label point to
TargetLabel(label) ==
    CASE label = "MEMBER_OF"      -> "Group"
      [] label = "HAS_ACCESS_TO"  -> "Account"
      [] label = "HAS_PERMISSION" -> "PermissionSet"

\* all orders in which a store may enumerate the elements of S
Orderings(S) ==
    {s \in [1..Cardinality(S) -> S] : \A i, j \in DOMAIN s : i # j => s[i] # s[j]}

\* an enumeration order of the store: one ordering per vertex label; edges
\* leaving a vertex come in the order of their targets, parallel edges in
\* the order of their permissionSetArn
StoreOrders(G) ==
    [User          : Orderings({v \in G.V : v.label = "User"}),
     Group         : Orderings({v \in G.V : v.label = "Group"}),
     Account       : Orderings({v \in G.V : v.label = "Account"}),
     PermissionSet : Orderings({v \in G.V : v.label = "PermissionSet"})]

Replicate(x, n) == [i \in 1..n |-> x]

RECURSIVE Flatten(_)
Flatten(ss) == IF ss = <<>> THEN <<>> ELSE Head(ss) \o Flatten(Tail(ss))

\* g.V().hasLabel(label)
VerticesOf(G, ord, label) == ord[label]

ArnOrder(ord) ==
    <<NoArn>> \o [i \in DOMAIN ord.PermissionSet |-> PermSetArn[ord.PermissionSet[i].id]]

\* g.V(v).outE(label)
OutE(G, ord, v, label) ==
    LET targets == ord[TargetLabel(label)]
        arns    == ArnOrder(ord)
    IN  Flatten([i \in DOMAIN targets |->
            Flatten([j \in DOMAIN arns |->
                LET e == Edge(v, label, targets[i], arns[j])
                IN  IF e \in DOMAIN G.E THEN Replicate(e, G.E[e]) ELSE <<>>])])

\* g.V(v).out(label)
Out(G, ord, v, label) ==
    LET es == OutE(G, ord, v, label) IN [i \in DOMAIN es |-> es[i].to]

\* the vertices of a list that carry the given property value
Has(vs, key, value) == SelectSeq(vs, LAMBDA v : Values(v, key) = <<value>>)

----------------------------------------------------------------------------
(* Access resolution: generate_report.get_user_data                        *)

Outcome(op, arg, raised, storeError, out) ==
    [op |-> op, arg |-> arg, raised |-> raised, storeError |-> storeError, out |-> out]

NoResult == Outcome("none", "", FALSE, FALSE, <<>>)

\* every permission set of any of the user's groups paired with every account
UserAccessMatrix_GlobalJoin(G, ord, groups) ==
    Flatten([i \in DOMAIN groups |->
        LET accounts    == Out(G, ord, groups[i], "HAS_ACCESS_TO")
            permissions == Flatten([h \in DOMAIN groups |->
                                Out(G, ord, groups[h], "HAS_PERMISSION")])
        IN  Flatten([j \in DOMAIN accounts |->
                LET account_name == Head(Values(accounts[j], "accountName"))
                IN  [k \in DOMAIN permissions |->
                        [account        |-> account_name,
                         permission_set |-> Head(Values(permissions[k], "arn")),
                         group          |-> Head(Values(groups[i], "groupName")),
                         environment    |-> determine_environment(account_name)]]])])

\* the entries appended to data['access_matrix'] by the nested loops over
\* groups, accounts and permissions
UserAccessMatrix(G, ord, groups) ==
    Flatten([i \in DOMAIN groups |->
        LET group       == groups[i]
            group_name  == Head(Values(group, "groupName"))
            accounts    == Out(G, ord, group, "HAS_ACCESS_TO")
            permissions == Out(G, ord, group, "HAS_PERMISSION")
        IN  Flatten([j \in DOMAIN accounts |->
                LET account_name == Head(Values(accounts[j], "accountName"))
                IN  [k \in DOMAIN permissions |->
                        [account        |-> account_name,
                         permission_set |-> Head(Values(permissions[k], "arn")),
                         group          |-> group_name,
                         environment    |-> determine_environment(account_name)]]])])

\* a values(key).next() of the loops finds no value: StopIteration
UserDataLookupFails(G, ord, groups) ==
    \E i \in DOMAIN groups :
        \/ Values(groups[i], "groupName") = <<>>
        \/ LET accounts    == Out(G, ord, groups[i], "HAS_ACCESS_TO")
               permissions == Out(G, ord, groups[i], "HAS_PERMISSION")
           IN  \/ \E j \in DOMAIN accounts : Values(accounts[j], "accountName") = <<>>
               \/ /\ accounts # <<>>
                  /\ \E k \in DOMAIN permissions : Values(permissions[k], "arn") = <<>>

\* data['environments']: the number of matrix entries of each environment
EnvironmentCounts(matrix) ==
    [env \in {matrix[i].environment : i \in DOMAIN matrix} |->
        Cardinality({i \in DOMAIN matrix : matrix[i].environment = env})]

\* get_user_data(g, email); storeError: a traversal raises.  The except
\* clause prints and re-raises, so every exception reaches the caller.
\* data['analysis_date'] (the wall clock) is left out.
get_user_data(G, ord, email, storeError) ==
    LET found == Has(VerticesOf(G, ord, "User"), "email", email)
    IN  IF storeError \/ found = <<>>
        THEN Outcome("get_user_data", email, TRUE, storeError, <<>>)
        ELSE
          LET user_vertex == Head(found)
              groups      == Out(G, ord, user_vertex, "MEMBER_OF")
          IN  IF UserDataLookupFails(G, ord, groups)
              THEN Outcome("get_user_data", email, TRUE, storeError, <<>>)
              ELSE
                LET matrix == UserAccessMatrix(G, ord, groups)
                IN  Outcome("get_user_data", email, FALSE, storeError,
                        [username        |-> email,
                         groups          |-> {Head(Values(groups[i], "groupName")) :
                                                    i \in DOMAIN groups},
                         accounts        |->
                            {Head(Values(a, "accountName")) :
                                a \in UNION {SeqRange(Out(G, ord, groups[i], "HAS_ACCESS_TO")) :
                                                i \in DOMAIN groups}},
                         permission_sets |-> {matrix[i].permission_set : i \in DOMAIN matrix},
                         access_matrix   |-> matrix,
                         environments    |-> EnvironmentCounts(matrix)])

----------------------------------------------------------------------------
(* Access resolution: build_report.get_access_data, get_org_access_data    *)

\* DataFrame.drop_duplicates(): the first occurrence of every row is kept
RECURSIVE drop_duplicates(_)
drop_duplicates(rows) ==
    IF rows = <<>> THEN <<>>
    ELSE LET init == drop_duplicates(SubSeq(rows, 1, Len(rows) - 1))
             last == rows[Len(rows)]
         IN  IF last \in SeqRange(init) THEN init ELSE Append(init, last)

\* a DataFrame with the columns and no row
EmptyFrame == <<>>

\* the traversers that reach project(): one per (user, group, edge) path
AccessPaths(G, ord, username) ==
    LET users == Has(VerticesOf(G, ord, "User"), "userName", username)
    IN  Flatten([u \in DOMAIN users |->
            LET groups == Out(G, ord, users[u], "MEMBER_OF")
            IN  Flatten([i \in DOMAIN groups |->
                    LET edges == OutE(G, ord, groups[i], "HAS_ACCESS_TO")
                    IN  [j \in DOMAIN edges |-> [group |-> groups[i], access |-> edges[j]]]])])

\* a by() modulator of the projection finds no value: the traversal raises
ProjectionFails(paths) ==
    \E i \in DOMAIN paths :
        \/ Values(paths[i].access.to, "accountName") = <<>>
        \/ paths[i].access.arn = NoArn
        \/ Values(paths[i].group, "groupName") = <<>>

AccessRows(paths) ==
    [i \in DOMAIN paths |->
        LET account        == Head(Values(paths[i].access.to, "accountName"))
            permission_set == paths[i].access.arn
        IN  [Account           |-> account,
             PermissionSet     |-> permission_set,
             PermissionSetName |-> clean_permission_set_name(permission_set),
             Group             |-> Head(Values(paths[i].group, "groupName")),
             Environment       |-> InlineEnvironment(account)]]

\* get_access_data(g, username); storeError: the traversal raises.  Every
\* exception is caught and answered with an empty DataFrame.
get_access_data(G, ord, username, storeError) ==
    LET paths == AccessPaths(G, ord, username)
    IN  IF storeError \/ ProjectionFails(paths)
        THEN Outcome("get_access_data", username, FALSE, storeError, EmptyFrame)
        ELSE IF paths = <<>>
        THEN Outcome("get_access_data", username, FALSE, storeError, EmptyFrame)
        ELSE Outcome("get_access_data", username, FALSE, storeError,
                     drop_duplicates(AccessRows(paths)))

\* user_df['Username'] = username
WithUsername(rows, username) ==
    [i \in DOMAIN rows |->
        [Username          |-> username,
         Account           |-> rows[i].Account,
         PermissionSet     |-> rows[i].PermissionSet,
         PermissionSetName |-> rows[i].PermissionSetName,
         Group             |-> rows[i].Group,
         Environment       |-> rows[i].Environment]]

\* get_org_access_data(g); usersError: the traversal listing the users
\* raises; failing: the users whose own traversal raises.  pd.concat of an
\* empty list raises ValueError, which the except clause answers with an
\* empty DataFrame as well.
get_org_access_data(G, ord, usersError, failing) ==
    LET vs    == VerticesOf(G, ord, "User")
        users == Flatten([i \in DOMAIN vs |-> Values(vs[i], "userName")])
    IN  IF usersError \/ users = <<>>
        THEN Outcome("get_org_access_data", "", FALSE,
                     [users |-> usersError, failing |-> failing], EmptyFrame)
        ELSE Outcome("get_org_access_data", "", FALSE,
                     [users |-> usersError, failing |-> failing],
                     Flatten([i \in DOMAIN users |->
                         WithUsername(
                             get_access_data(G, ord, users[i], users[i] \in failing).out,
                             users[i])]))

----------------------------------------------------------------------------
(* build_report: the analyses of the organization-wide DataFrame           *)

\* the values of a column of a DataFrame
Column(df, col) == {df[i][col] : i \in DOMAIN df}

\* pd.crosstab(df['Username'], df['Group']): the number of rows of every
\* user (row) and group (column) of the DataFrame
Crosstab(df) ==
    [p \in Column(df, "Username") \X Column(df, "Group") |->
        Cardinality({i \in DOMAIN df : df[i].Username = p[1] /\ df[i].Group = p[2]})]

\* (m > 0).dot((m > 0).T): the product of the boolean users-by-groups matrix
\* with its transpose, a boolean matrix whose rows and columns are the users
OverlapDot(m, usernames, groups) ==
    [p \in usernames \X usernames |->
        \E g \in groups : m[<<p[1], g>>] > 0 /\ m[<<p[2], g>>] > 0]

\* (overlapping_groups / total_users) * 100, each entry as the fraction
\* num / den
OverlapPercentages(overlapping_groups, total_users) ==
    [p \in DOMAIN overlapping_groups |->
        [num |-> IF overlapping_groups[p] THEN 100 ELSE 0, den |-> total_users]]

OverlapResult(overlapping_groups, total_users) ==
    [matrix      |-> overlapping_groups,
     percentages |-> OverlapPercentages(overlapping_groups, total_users)]

\* build_report.analyze_access_overlap; total_users is the number of rows of
\* the crosstab
analyze_access_overlap(df) ==
    OverlapResult(
        OverlapDot(Crosstab(df), Column(df, "Username"), Column(df, "Group")),
        Cardinality(Column(df, "Username")))

\* the number of distinct values of a column among the rows of one group
NUnique(df, group, col) ==
    Cardinality({df[i][col] : i \in {r \in DOMAIN df : df[r].Group = group}})

\* df.groupby('Group').agg(nunique): one row per group of the DataFrame
GroupStats(df) ==
    [g \in Column(df, "Group") |->
        [User_Count           |-> NUnique(df, g, "Username"),
         Permission_Set_Count |-> NUnique(df, g, "PermissionSet"),
         Account_Count        |-> NUnique(df, g, "Account")]]

\* group_stats[group_stats['User_Count'] == n].index.tolist(), a list in the
\* order of the group names
GroupsWithUserCount(group_stats, n) ==
    {g \in DOMAIN group_stats : group_stats[g].User_Count = n}

\* df.groupby('Username')['Group'].nunique()
UserGroupCounts(df) ==
    [u \in Column(df, "Username") |->
        Cardinality({df[i].Group : i \in {r \in DOMAIN df : df[r].Username = u}})]

RECURSIVE SumOver(_, _)
SumOver(f, keys) ==
    IF keys = {} THEN 0
    ELSE LET k == CHOOSE x \in keys : TRUE
         IN  f[k] + SumOver(f, keys \ {k})

\* counts[u] > counts.mean() + 2 * counts.std(), the sample standard
\* deviation; with a single user std() is NaN and the comparison is False
AboveTwoSigma(counts, u, n, total) ==
    /\ n > 1
    /\ n * counts[u] > total
    /\ (n - 1) * (n * counts[u] - total) * (n * counts[u] - total)
            > 4 * SumOver([w \in DOMAIN counts |->
                            (n * counts[w] - total) * (n * counts[w] - total)],
                          DOMAIN counts)

UnusualGroupCounts(counts) ==
    {u \in DOMAIN counts :
        AboveTwoSigma(counts, u, Cardinality(DOMAIN counts), SumOver(counts, DOMAIN counts))}

GroupPatterns(group_stats, unusual_group_counts) ==
    [group_stats          |-> group_stats,
     empty_groups         |-> GroupsWithUserCount(group_stats, 0),
     single_user_groups   |-> GroupsWithUserCount(group_stats, 1),
     unusual_group_counts |-> unusual_group_counts]

\* build_report.analyze_group_patterns
analyze_group_patterns(df) ==
    GroupPatterns(GroupStats(df), UnusualGroupCounts(UserGroupCounts(df)))

----------------------------------------------------------------------------
(* toxic.analyze_toxic_combinations                                        *)

\* list(set(...)) and set(...) values are sets: Python fixes no order for them

\* optional(out('HAS_PERMISSION')): the vertices reached, or the vertex itself
\* when there is none
Optional(v, further) == IF further = <<>> THEN <<v>> ELSE further

\* project('group', 'account', 'permission'): one record per path, each
\* entry the folded list of a property
AccessDetailRows(group, account, permissions) ==
    [k \in DOMAIN permissions |->
        [group      |-> Values(group, "groupName"),
         account    |-> Values(account, "accountName"),
         permission |-> Values(permissions[k], "name")]]

\* the paths of one group: group -HAS_ACCESS_TO-> account, continued by
\* optional(out('HAS_PERMISSION')) from the account vertex
GroupAccessDetails(G, ord, group, accounts) ==
    Flatten([j \in DOMAIN accounts |->
        AccessDetailRows(group, accounts[j],
            Optional(accounts[j], Out(G, ord, accounts[j], "HAS_PERMISSION")))])

GroupsAccessDetails(G, ord, groups) ==
    Flatten([i \in DOMAIN groups |->
        GroupAccessDetails(G, ord, groups[i], Out(G, ord, groups[i], "HAS_ACCESS_TO"))])

\* the user_access traversal for one user: one record per path
\* user -MEMBER_OF-> group -HAS_ACCESS_TO-> account -optional-> permission
UserAccessDetails(G, ord, user) ==
    GroupsAccessDetails(G, ord, Out(G, ord, user, "MEMBER_OF"))

\* the account names of the access records of one bucket
Bucket(details, accountNames, access_type) ==
    UNION {{details[i].account[n] : n \in DOMAIN details[i].account} \cap accountNames :
            i \in {d \in DOMAIN details : InlineAccessType(details[d].permission) = access_type}}

\* the record of one user, with flagged telling whether it is appended to
\* findings['cross_env']
CrossEnvFinding(user, details, prod_ro, prod_rw, nonprod_ro, nonprod_rw) ==
    [flagged |-> (prod_ro # {} \/ prod_rw # {}) /\ (nonprod_ro # {} \/ nonprod_rw # {}),
     finding |->
        [user              |-> Head(Values(user, "email")),
         prod_access_ro    |-> prod_ro,
         prod_access_rw    |-> prod_rw,
         nonprod_access_ro |-> nonprod_ro,
         nonprod_access_rw |-> nonprod_rw,
         groups            |-> UNION {SeqRange(details[i].group) : i \in DOMAIN details}]]

\* the four buckets of one user's access records
CrossEnvBuckets(user, details, prod, nonprod) ==
    CrossEnvFinding(user, details,
        Bucket(details, prod, "ro"), Bucket(details, prod, "rw"),
        Bucket(details, nonprod, "ro"), Bucket(details, nonprod, "rw"))

\* the loop building findings['cross_env'], for one user.  elif: a name that
\* is also in prod_accounts is not tried against nonprod_accounts
CrossEnvRecord(G, ord, user, prod_accounts, nonprod_accounts) ==
    CrossEnvBuckets(user, UserAccessDetails(G, ord, user),
        SeqRange(prod_accounts),
        SeqRange(nonprod_accounts) \ SeqRange(prod_accounts))

\* the findings of the records that are appended
Appended(records) ==
    Flatten([i \in DOMAIN records |->
        IF records[i].flagged THEN <<records[i].finding>> ELSE <<>>])

\* values(key).fold() over a list of vertices
PropertyList(vs, key) == Flatten([i \in DOMAIN vs |-> Values(vs[i], key)])

\* out('MEMBER_OF').where(out('HAS_PERMISSION').has('name', within(names)))
\*     .values('groupName').fold()
AdminGroups(G, ord, user, admin_permission_sets) ==
    PropertyList(
        SelectSeq(Out(G, ord, user, "MEMBER_OF"), LAMBDA group :
            \E p \in SeqRange(Out(G, ord, group, "HAS_PERMISSION")) :
                \E n \in SeqRange(Values(p, "name")) :
                    n \in SeqRange(admin_permission_sets)),
        "groupName")

\* if admin_groups: findings['admin_access'].append(...)
AdminAccessRecord(user, admin_groups) ==
    IF admin_groups # <<>>
    THEN <<[user |-> Head(Values(user, "email")), admin_groups |-> admin_groups]>>
    ELSE <<>>

\* the paths of one group in the user_account_access traversal, with the
\* names of the permission sets reached by out('HAS_PERMISSION') from the
\* account vertex
GroupAccountAccess(G, ord, accounts) ==
    [j \in DOMAIN accounts |->
        [account         |-> Head(Values(accounts[j], "accountName")),
         permission_info |->
            PropertyList(Out(G, ord, accounts[j], "HAS_PERMISSION"), "name")]]

GroupsAccountAccess(G, ord, groups) ==
    Flatten([i \in DOMAIN groups |->
        GroupAccountAccess(G, ord, Out(G, ord, groups[i], "HAS_ACCESS_TO"))])

\* the user_account_access traversal for one user: one record per path
\* user -MEMBER_OF-> group -HAS_ACCESS_TO-> account
UserAccountAccess(G, ord, user) ==
    GroupsAccountAccess(G, ord, Out(G, ord, user, "MEMBER_OF"))

\* round((part / whole) * 100, 1), in tenths of a percent
Percentage(part, whole) ==
    LET q == (1000 * part) \div whole
        r == (1000 * part) % whole
    IN  IF 2 * r > whole \/ (2 * r = whole /\ q % 2 = 1) THEN q + 1 ELSE q

\* total_accounts >= accounts_count * 0.8
ExceedsThreshold_AtLeast(total_accounts, accounts_count) ==
    10 * total_accounts >= 8 * accounts_count

\* total_accounts > accounts_count * 0.8
ExceedsThreshold(total_accounts, accounts_count) ==
    10 * total_accounts > 8 * accounts_count

\* ro_accounts / rw_accounts: the accounts of the records of one access type
AccountsWithAccess(details, access_type) ==
    {details[i].account :
        i \in {d \in DOMAIN details :
                InlineAccessType(details[d].permission_info) = access_type}}

\* the record of one user, with flagged telling whether it is appended to
\* findings['extensive_access']
ExtensiveFinding(user, ro, rw, accounts_count) ==
    [flagged |-> ExceedsThreshold(Cardinality(ro \cup rw), accounts_count),
     finding |->
        [user              |-> Head(Values(user, "email")),
         ro_accounts       |-> ro,
         rw_accounts       |-> rw,
         total_accounts    |-> accounts_count,
         access_percentage |->
            IF accounts_count = 0 THEN 0
            ELSE Percentage(Cardinality(ro \cup rw), accounts_count)]]

ExtensiveAccounts(user, details, accounts_count) ==
    ExtensiveFinding(user, AccountsWithAccess(details, "ro"),
                     AccountsWithAccess(details, "rw"), accounts_count)

\* the loop building findings['extensive_access'], for one user
ExtensiveRecord(G, ord, user, accounts_count) ==
    ExtensiveAccounts(user, UserAccountAccess(G, ord, user), accounts_count)

\* the more-than-5 comparison of high_risk_users
HighRiskLimit == 5

\* g.V().hasLabel(label).count()
CountLabel(G, label) == Cardinality({v \in G.V : v.label = label})

\* the users of the cross_env findings whose field is not empty
UsersWith(cross_env, field) ==
    {cross_env[i].user : i \in {c \in DOMAIN cross_env : cross_env[c][field] # {}}}

\* the accounts of a field over all cross_env findings
AllAccountsOf(cross_env, field) ==
    UNION {cross_env[i][field] : i \in DOMAIN cross_env}

\* findings['statistics'] before the percentages are added
Statistics(G, cross_env, admin_access, extensive_access) ==
    [total_users                     |-> CountLabel(G, "User"),
     total_groups                    |-> CountLabel(G, "Group"),
     total_accounts                  |-> CountLabel(G, "Account"),
     total_permission_sets           |-> CountLabel(G, "PermissionSet"),
     users_with_cross_env            |-> Len(cross_env),
     users_with_admin                |-> Len(admin_access),
     users_with_extensive_access     |-> Len(extensive_access),
     users_with_prod_rw              |-> Cardinality(UsersWith(cross_env, "prod_access_rw")),
     users_with_prod_ro              |-> Cardinality(UsersWith(cross_env, "prod_access_ro")),
     users_with_nonprod_rw           |->
        Cardinality(UsersWith(cross_env, "nonprod_access_rw")),
     users_with_nonprod_ro           |->
        Cardinality(UsersWith(cross_env, "nonprod_access_ro")),
     unique_prod_rw_accounts         |->
        Cardinality(AllAccountsOf(cross_env, "prod_access_rw")),
     unique_prod_ro_accounts         |->
        Cardinality(AllAccountsOf(cross_env, "prod_access_ro")),
     unique_nonprod_rw_accounts      |->
        Cardinality(AllAccountsOf(cross_env, "nonprod_access_rw")),
     unique_nonprod_ro_accounts      |->
        Cardinality(AllAccountsOf(cross_env, "nonprod_access_ro")),
     users_with_both_prod_nonprod_rw |->
        Cardinality(UsersWith(cross_env, "prod_access_rw")
                    \cap UsersWith(cross_env, "nonprod_access_rw")),
     high_risk_users                 |->
        Cardinality({i \in DOMAIN cross_env :
            /\ cross_env[i].prod_access_rw # {}
            /\ cross_env[i].nonprod_access_rw # {}
            /\ Cardinality(cross_env[i].prod_access_rw) > HighRiskLimit
            /\ Cardinality(cross_env[i].nonprod_access_rw) > HighRiskLimit})]

\* the user percentages taken over the number of accounts
Percentages_OverAccounts(stats, prod_accounts, nonprod_accounts) ==
    [prod_rw_coverage    |-> Percentage(stats.unique_prod_rw_accounts, Len(prod_accounts)),
     prod_ro_coverage    |-> Percentage(stats.unique_prod_ro_accounts, Len(prod_accounts)),
     nonprod_rw_coverage |->
        Percentage(stats.unique_nonprod_rw_accounts, Len(nonprod_accounts)),
     nonprod_ro_coverage |->
        Percentage(stats.unique_nonprod_ro_accounts, Len(nonprod_accounts)),
     users_with_cross_env_percentage |->
        Percentage(stats.users_with_cross_env, stats.total_accounts),
     users_with_admin_percentage |->
        Percentage(stats.users_with_admin, stats.total_accounts)]

\* the percentage fields added by findings['statistics'].update
Percentages(stats, prod_accounts, nonprod_accounts) ==
    [prod_rw_coverage    |-> Percentage(stats.unique_prod_rw_accounts, Len(prod_accounts)),
     prod_ro_coverage    |-> Percentage(stats.unique_prod_ro_accounts, Len(prod_accounts)),
     nonprod_rw_coverage |->
        Percentage(stats.unique_nonprod_rw_accounts, Len(nonprod_accounts)),
     nonprod_ro_coverage |->
        Percentage(stats.unique_nonprod_ro_accounts, Len(nonprod_accounts)),
     users_with_cross_env_percentage |->
        Percentage(stats.users_with_cross_env, stats.total_users),
     users_with_admin_percentage |->
        Percentage(stats.users_with_admin, stats.total_users)]

\* the value returned, or the exception: the except clause prints and
\* re-raises; a user without email stops values('email').next(); a zero
\* divisor in the percentages raises ZeroDivisionError
ToxicOutcome(storeError, users, prod_accounts, nonprod_accounts, cross_env, admin_access, extensive_access, stats) ==
    IF \/ storeError
       \/ \E i \in DOMAIN users : Values(users[i], "email") = <<>>
       \/ prod_accounts = <<>> \/ nonprod_accounts = <<>> \/ users = <<>>
    THEN Outcome("analyze_toxic_combinations", "", TRUE, storeError, <<>>)
    ELSE Outcome("analyze_toxic_combinations", "", FALSE, storeError,
            [cross_env        |-> cross_env,
             admin_access     |-> admin_access,
             extensive_access |-> extensive_access,
             statistics       |-> stats,
             percentages      |-> Percentages(stats, prod_accounts, nonprod_accounts)])

\* the statistics computed from the three lists of findings
ToxicStatistics(G, storeError, users, prod_accounts, nonprod_accounts, cross_env, admin_access, extensive_access) ==
    ToxicOutcome(storeError, users, prod_accounts, nonprod_accounts,
                 cross_env, admin_access, extensive_access,
                 Statistics(G, cross_env, admin_access, extensive_access))

\* the three loops over the users
ToxicFindings(G, ord, storeError, users, prod_accounts, nonprod_accounts, admin_permission_sets, accounts_count) ==
    ToxicStatistics(G, storeError, users, prod_accounts, nonprod_accounts,
        Appended([i \in DOMAIN users |->
            CrossEnvRecord(G, ord, users[i], prod_accounts, nonprod_accounts)]),
        Flatten([i \in DOMAIN users |->
            AdminAccessRecord(users[i],
                AdminGroups(G, ord, users[i], admin_permission_sets))]),
        Appended([i \in DOMAIN users |->
            ExtensiveRecord(G, ord, users[i], accounts_count)]))

\* the classification of the account names and of the permission set names
ToxicClassified(G, ord, storeError, users, all_accounts, all_permission_sets) ==
    ToxicFindings(G, ord, storeError, users,
        SelectSeq(all_accounts, LAMBDA n : ToxicAccountClass(n) = "prod"),
        SelectSeq(all_accounts, LAMBDA n : ToxicAccountClass(n) = "nonprod"),
        SelectSeq(all_permission_sets, IsAdminName),
        CountLabel(G, "Account"))

\* analyze_toxic_combinations(g); storeError: a traversal raises.  The
\* constant 'critical_findings' and 'remediation' entries are left out.
analyze_toxic_combinations(G, ord, storeError) ==
    ToxicClassified(G, ord, storeError,
        VerticesOf(G, ord, "User"),
        PropertyList(VerticesOf(G, ord, "Account"), "accountName"),
        PropertyList(VerticesOf(G, ord, "PermissionSet"), "name"))

----------------------------------------------------------------------------
(* Graphs as the collector and the loader build them                       *)

AllVertices(accountIds) ==
    {Vertex("User", u) : u \in UserIds} \cup {Vertex("Group", g) : g \in GroupIds}
    \cup {Vertex("Account", a) : a \in accountIds}
    \cup {Vertex("PermissionSet", p) : p \in PermSetIds}

RECURSIVE BagSize(_, _)
BagSize(bag, keys) ==
    IF keys = {} THEN 0
    ELSE LET k == CHOOSE x \in keys : TRUE
         IN  bag[k] + BagSize(bag, keys \ {k})

\* the multisets of MEMBER_OF edges: how many parallel edges join each user
\* to each group (a dump loaded twice without --clean repeats its edges)
Memberships ==
    {m \in [UserIds \X GroupIds -> 0..MaxMemberships] :
        BagSize(m, UserIds \X GroupIds) <= MaxMemberships}

MemberEdges(m) ==
    LET present == {ug \in UserIds \X GroupIds : m[ug] > 0}
    IN  [e \in {Edge(Vertex("User", ug[1]), "MEMBER_OF", Vertex("Group", ug[2]), NoArn) :
                    ug \in present} |->
            m[<<e.from.id, e.to.id>>]]

\* _collect_assignments: one HAS_ACCESS_TO edge carrying permissionSetArn
\* for an assignment <<group, account, permission set>>
AccessEdge(t) ==
    Edge(Vertex("Group", t[1]), "HAS_ACCESS_TO", Vertex("Account", t[2]), PermSetArn[t[3]])

\* _collect_assignments: one HAS_PERMISSION edge for an assignment
PermissionEdge(t) ==
    Edge(Vertex("Group", t[1]), "HAS_PERMISSION", Vertex("PermissionSet", t[3]), NoArn)

\* the graph load_vertices and load_edges_batch build from a dump (edges
\* with the same key are loaded once)
MakeGraph(accountIds, m, accessEdges, permEdges) ==
    [V |-> AllVertices(accountIds),
     E |-> MemberEdges(m) @@ [e \in accessEdges \cup permEdges |-> 1]]

\* a collector that emits the HAS_ACCESS_TO edge of an assignment only
CollectedGraph_AccessOnly(accountIds, m, assignments) ==
    MakeGraph(accountIds, m, {AccessEdge(t) : t \in assignments}, {})

CollectedGraph(accountIds, m, assignments) ==
    MakeGraph(accountIds, m,
              {AccessEdge(t) : t \in assignments},
              {PermissionEdge(t) : t \in assignments})

\* the store without any vertex or edge
EmptyGraph == [V |-> {}, E |-> <<>>]

BoundedSubsets(S, n) == {T \in SUBSET S : Cardinality(T) <= n}

\* the accounts of the graphs of Spec
ResolutionAccounts == {"acct1", "acct2"}

----------------------------------------------------------------------------
(* Spec: one run of a reporting script against a loaded graph              *)

Init ==
    /\ \E m \in Memberships :
       \E assignments \in BoundedSubsets(GroupIds \X ResolutionAccounts \X PermSetIds,
                                         MaxAssignments) :
            graph = CollectedGraph(ResolutionAccounts, m, assignments)
    /\ name = <<>>
    /\ result = NoResult

\* generate_report.main: get_user_data(g, args.email)
GetUserData ==
    /\ result = NoResult
    /\ \E email \in UserIds \cup {UnknownUser} :
       \E ord \in StoreOrders(graph) :
       \E storeError \in BOOLEAN :
            result' = get_user_data(graph, ord, email, storeError)
    /\ UNCHANGED <<graph, name>>

\* build_report: get_access_data(g, username)
GetAccessData ==
    /\ result = NoResult
    /\ \E username \in UserIds \cup {UnknownUser} :
       \E ord \in StoreOrders(graph) :
       \E storeError \in BOOLEAN :
            result' = get_access_data(graph, ord, username, storeError)
    /\ UNCHANGED <<graph, name>>

\* build_report: get_org_access_data(g)
GetOrgAccessData ==
    /\ result = NoResult
    /\ \E ord \in StoreOrders(graph) :
       \E usersError \in BOOLEAN :
       \E failing \in SUBSET UserIds :
            result' = get_org_access_data(graph, ord, usersError, failing)
    /\ UNCHANGED <<graph, name>>

Next == GetUserData \/ GetAccessData \/ GetOrgAccessData

Spec == Init /\ [][Next]_vars

----------------------------------------------------------------------------
(* Claims about access resolution (Spec)                                   *)

HasEdge(G, from, label, to) ==
    \E e \in DOMAIN G.E : e.from = from /\ e.label = label /\ e.to = to

\* the grants of a user: <<g, a, p>> with u MEMBER_OF g, g HAS_ACCESS_TO a
\* and g HAS_PERMISSION p
GrantIds(G, user) ==
    {t \in GroupIds \X AccountIds \X PermSetIds :
        /\ HasEdge(G, Vertex("User", user), "MEMBER_OF", Vertex("Group", t[1]))
        /\ HasEdge(G, Vertex("Group", t[1]), "HAS_ACCESS_TO", Vertex("Account", t[2]))
        /\ HasEdge(G, Vertex("Group", t[1]), "HAS_PERMISSION", Vertex("PermissionSet", t[3]))}

\* the grants as <<group name, account name, permission-set ARN>>
ExpectedGrants(G, user) ==
    {<<t[1], AccountName[t[2]], PermSetArn[t[3]]>> : t \in GrantIds(G, user)}

MatrixTriples(matrix) ==
    {<<matrix[i].group, matrix[i].account, matrix[i].permission_set>> : i \in DOMAIN matrix}

HasDuplicates(s) == \E i, j \in DOMAIN s : i # j /\ s[i] = s[j]

\* C1: when get_user_data returns, its access matrix holds an entry
\* (group, account, permission set) exactly for the groups g of the user, the
\* accounts a and the permission sets p with u MEMBER_OF g, g HAS_ACCESS_TO a
\* and g HAS_PERMISSION p: accounts and permission sets are joined group by
\* group, never across groups.
C1_MatrixIsGroupwiseJoin ==
    (result.op = "get_user_data" /\ ~result.raised) =>
        MatrixTriples(result.out.access_matrix) = ExpectedGrants(graph, result.arg)

\* a user in two groups, each with its own account and permission set: the
\* matrix pairs each account with the permission set of its own group only
C1_Witness ==
    /\ result.op = "get_user_data" /\ ~result.raised
    /\ \E i, j \in DOMAIN result.out.access_matrix :
        LET x == result.out.access_matrix[i]
            y == result.out.access_matrix[j]
        IN  /\ x.group # y.group /\ x.account # y.account
            /\ x.permission_set # y.permission_set
            /\ <<x.group, x.account, y.permission_set>>
                    \notin MatrixTriples(result.out.access_matrix)

\* C2: the grant sequence of get_user_data (access_matrix) and of
\* get_access_data (rows) holds no two entries with the same
\* (account, permission_set, group).
C2_NoDuplicateGrants ==
    /\ (result.op = "get_user_data" /\ ~result.raised) =>
            ~HasDuplicates([i \in DOMAIN result.out.access_matrix |->
                <<result.out.access_matrix[i].account,
                  result.out.access_matrix[i].permission_set,
                  result.out.access_matrix[i].group>>])
    /\ result.op = "get_access_data" =>
            ~HasDuplicates([i \in DOMAIN result.out |->
                <<result.out[i].Account, result.out[i].PermissionSet, result.out[i].Group>>])

\* C3: a traversal that raises makes get_access_data / get_org_access_data
\* fail visibly: no value is returned for a run in which a query failed.
C3_StoreErrorIsVisible ==
    /\ (result.op = "get_access_data" /\ result.storeError) => result.raised
    /\ (result.op = "get_org_access_data"
            /\ (result.storeError.users \/ result.storeError.failing # {}))
        => result.raised

\* C4: resolving an identifier that matches no User vertex returns an empty
\* result and raises nothing (get_user_data by email, get_access_data by
\* userName).
C4_UnknownUserYieldsEmpty ==
    (result.op \in {"get_user_data", "get_access_data"}
        /\ result.arg = UnknownUser /\ ~result.storeError)
    => (~result.raised
        /\ (result.op = "get_access_data" => result.out = EmptyFrame)
        /\ (result.op = "get_user_data" => result.out.access_matrix = <<>>))

----------------------------------------------------------------------------
(* ToxicSpec: one run of toxic.py --toxic against a loaded graph           *)

ToxicInit ==
    /\ \E m \in Memberships :
       \E assignments \in BoundedSubsets(GroupIds \X AccountIds \X PermSetIds,
                                         MaxAssignments) :
            graph = CollectedGraph(AccountIds, m, assignments)
    /\ name = <<>>
    /\ result = NoResult

\* toxic.main: analyze_toxic_combinations(g)
AnalyzeToxicCombinations ==
    /\ result = NoResult
    /\ \E ord \in StoreOrders(graph) :
       \E storeError \in BOOLEAN :
            result' = analyze_toxic_combinations(graph, ord, storeError)
    /\ UNCHANGED <<graph, name>>

ToxicNext == AnalyzeToxicCombinations

ToxicSpec == ToxicInit /\ [][ToxicNext]_vars

----------------------------------------------------------------------------
(* Claims about analyze_toxic_combinations (ToxicSpec)                     *)

ToxicDone == result.op = "analyze_toxic_combinations" /\ ~result.raised

\* the accounts user u reaches: u MEMBER_OF g and g HAS_ACCESS_TO a
ReachedAccounts(G, u) ==
    {a \in AccountIds :
        \E g \in GroupIds :
            /\ HasEdge(G, Vertex("User", u), "MEMBER_OF", Vertex("Group", g))
            /\ HasEdge(G, Vertex("Group", g), "HAS_ACCESS_TO", Vertex("Account", a))}

\* the environments (Production, Non-Production, Other) of the accounts u reaches
ReachedEnvironments(G, u) ==
    {determine_environment(AccountName[a]) : a \in ReachedAccounts(G, u)}

ListedIn(findings, u) == \E i \in DOMAIN findings : findings[i].user = u

\* C5: a user appears in cross_env exactly when the user reaches at least
\* one Production account and at least one Non-Production account.
C5_CrossEnvIffBothEnvironments ==
    ToxicDone =>
        \A u \in UserIds :
            ListedIn(result.out.cross_env, u)
                <=> {"Production", "Non-Production"} \subseteq ReachedEnvironments(graph, u)

\* C6: a user who reaches only Production accounts and Other accounts is not
\* listed in cross_env.
C6_OtherAccountsInNoBucket ==
    ToxicDone =>
        \A u \in UserIds :
            ReachedEnvironments(graph, u) = {"Production", "Other"}
                => ~ListedIn(result.out.cross_env, u)

\* C7: a cross_env finding lists every reached account in the bucket of its
\* environment and of the access level of the permission set through which
\* the user reaches it: a user whose grants are (GroupA, "prod-x", read-write
\* permission set) and (GroupB, "dev-y", read-only permission set) is
\* reported with prod_access_rw = ["prod-x"], nonprod_access_ro = ["dev-y"]
\* and groups = {GroupA, GroupB}.
C7_BucketsFollowAccessLevel ==
    ToxicDone =>
        \A u \in UserIds, gA, gB \in GroupIds :
            (gA # gB /\ GrantIds(graph, u) = {<<gA, "acct1", "psAdmin">>, <<gB, "acct2", "psRO">>})
            => \E i \in DOMAIN result.out.cross_env :
                LET f == result.out.cross_env[i]
                IN  /\ f.user = u
                    /\ f.prod_access_rw = {AccountName["acct1"]}
                    /\ f.nonprod_access_ro = {AccountName["acct2"]}
                    /\ f.groups = {gA, gB}

\* u is a member of a group with a permission set whose name contains,
\* compared in lower case, one of the administrative keywords
HoldsAdminPermission(G, u) ==
    \E g \in GroupIds, p \in PermSetIds :
        /\ HasEdge(G, Vertex("User", u), "MEMBER_OF", Vertex("Group", g))
        /\ HasEdge(G, Vertex("Group", g), "HAS_PERMISSION", Vertex("PermissionSet", p))
        /\ \E k \in DOMAIN AdminPatterns : Contains(Lower(PermSetName[p]), AdminPatterns[k])

\* C10: a user is listed in admin_access exactly when the user is a member
\* of a group that has a permission set whose name contains, whatever its
\* casing, an administrative keyword; neither accounts nor environments
\* take part.
C10_AdminIffAdminPermission ==
    ToxicDone =>
        \A u \in UserIds :
            ListedIn(result.out.admin_access, u) <=> HoldsAdminPermission(graph, u)

\* one user is listed through "SecurityAdmin-FullAccess", the other, who
\* holds only a permission set without keyword, is not
C10_Witness ==
    /\ ToxicDone
    /\ \E u, w \in UserIds :
        /\ ListedIn(result.out.admin_access, u)
        /\ ~ListedIn(result.out.admin_access, w)
        /\ \E g \in GroupIds :
            /\ HasEdge(graph, Vertex("User", w), "MEMBER_OF", Vertex("Group", g))
            /\ HasEdge(graph, Vertex("Group", g), "HAS_PERMISSION",
                       Vertex("PermissionSet", "psRO"))

\* the groups of u that have a permission set with an administrative keyword
AdminGroupsOf(G, u) ==
    {g \in GroupIds :
        /\ HasEdge(G, Vertex("User", u), "MEMBER_OF", Vertex("Group", g))
        /\ \E p \in PermSetIds :
            /\ HasEdge(G, Vertex("Group", g), "HAS_PERMISSION", Vertex("PermissionSet", p))
            /\ \E k \in DOMAIN AdminPatterns :
                    Contains(Lower(PermSetName[p]), AdminPatterns[k])}

\* C11: for every user listed in admin_access, admin_groups holds exactly
\* the user's groups that have an admin-matching permission set, each of
\* them once.
C11_AdminGroupsExactOnce ==
    ToxicDone =>
        \A i \in DOMAIN result.out.admin_access :
            /\ SeqRange(result.out.admin_access[i].admin_groups)
                    = AdminGroupsOf(graph, result.out.admin_access[i].user)
            /\ ~HasDuplicates(result.out.admin_access[i].admin_groups)

----------------------------------------------------------------------------
(* WideSpec: analyze_toxic_combinations over an organization of many       *)
(* accounts                                                                *)

\* the organization with the first np "prod-" accounts and the first nd
\* "dev-" accounts
WideAccounts(np, nd) ==
    {WideProdIds[i] : i \in 1..np} \cup {WideDevIds[i] : i \in 1..nd}

\* alice is a member of GroupA, bob of GroupB, and alice of GroupB as well
\* when both holds
WideMemberships(both) ==
    [ug \in UserIds \X GroupIds |->
        IF \/ ug = <<"alice", "GroupA">>
           \/ ug = <<"bob", "GroupB">>
           \/ (both /\ ug = <<"alice", "GroupB">>)
        THEN 1 ELSE 0]

OtherPermSet(p) == CHOOSE q \in PermSetIds : q # p

\* GroupA is assigned permission set p on the first a "prod-" and the first
\* b "dev-" accounts, GroupB the other permission set on the same accounts
\* but the last "dev-" one
WideAssignments(a, b, p) ==
    {<<"GroupA", x, p>> : x \in WideAccounts(a, b)}
    \cup {<<"GroupB", x, OtherPermSet(p)>> :
            x \in WideAccounts(a, IF b > 0 THEN b - 1 ELSE 0)}

WideInit ==
    /\ \E np, nd \in HighRiskLimit..MaxWide :
       \E a \in 0..np, b \in 0..nd :
       \E p \in PermSetIds, both \in BOOLEAN :
            graph = CollectedGraph(WideAccounts(np, nd), WideMemberships(both),
                                   WideAssignments(a, b, p))
    /\ name = <<>>
    /\ result = NoResult

\* the Account vertices of G in the order of the wide universe
WideAccountList(G) ==
    SelectSeq([i \in DOMAIN (WideProdIds \o WideDevIds) |->
                    Vertex("Account", (WideProdIds \o WideDevIds)[i])],
              LAMBDA v : v \in G.V)

Reverse(s) == [i \in DOMAIN s |-> s[Len(s) + 1 - i]]

\* the enumeration orders tried on a wide organization: every order of the
\* users and of the groups, the accounts forwards and backwards, the
\* permission sets in one order
WideStoreOrders(G) ==
    [User          : Orderings({v \in G.V : v.label = "User"}),
     Group         : Orderings({v \in G.V : v.label = "Group"}),
     Account       : {WideAccountList(G), Reverse(WideAccountList(G))},
     PermissionSet : {CHOOSE s \in Orderings({v \in G.V : v.label = "PermissionSet"}) :
                        TRUE}]

\* toxic.main: analyze_toxic_combinations(g) on a wide organization
AnalyzeWideOrganization ==
    /\ result = NoResult
    /\ \E ord \in WideStoreOrders(graph) :
       \E storeError \in BOOLEAN :
            result' = analyze_toxic_combinations(graph, ord, storeError)
    /\ UNCHANGED <<graph, name>>

WideNext == AnalyzeWideOrganization

WideSpec == WideInit /\ [][WideNext]_vars

\* the Account vertices user u reaches: u MEMBER_OF g and g HAS_ACCESS_TO a
ReachedAccountVertices(G, u) ==
    {a \in {v \in G.V : v.label = "Account"} :
        \E g \in GroupIds :
            /\ HasEdge(G, Vertex("User", u), "MEMBER_OF", Vertex("Group", g))
            /\ HasEdge(G, Vertex("Group", g), "HAS_ACCESS_TO", a)}

AccountVertices(G) == {v \in G.V : v.label = "Account"}

\* C12: a user is listed in extensive_access exactly when the number of
\* distinct accounts the user reaches is strictly greater than 0.8 times the
\* number of accounts of the organization: of 10 accounts, 8 are not enough
\* and 9 are.
C12_ExtensiveIffAboveThreshold ==
    ToxicDone =>
        \A u \in UserIds :
            ListedIn(result.out.extensive_access, u)
                <=> 10 * Cardinality(ReachedAccountVertices(graph, u))
                        > 8 * Cardinality(AccountVertices(graph))

\* of 10 accounts one user reaches 9, two of them through two groups, and is
\* listed; the other reaches 8 and is not
C12_Witness ==
    /\ ToxicDone
    /\ Cardinality(AccountVertices(graph)) = 10
    /\ \E u, w \in UserIds :
        /\ Cardinality(ReachedAccountVertices(graph, u)) = 9
        /\ Cardinality({g \in GroupIds :
                HasEdge(graph, Vertex("User", u), "MEMBER_OF", Vertex("Group", g))}) = 2
        /\ ListedIn(result.out.extensive_access, u)
        /\ Cardinality(ReachedAccountVertices(graph, w)) = 8
        /\ ~ListedIn(result.out.extensive_access, w)

\* the accounts of environment env on which u holds ReadWrite access: u is a
\* member of a group with a HAS_ACCESS_TO edge to the account whose
\* permission set is not a read-only one
ReadWriteAccounts(G, u, env) ==
    {a \in AccountVertices(G) :
        /\ determine_environment(AccountName[a.id]) = env
        /\ \E e \in DOMAIN G.E :
            /\ e.label = "HAS_ACCESS_TO" /\ e.to = a
            /\ HasEdge(G, Vertex("User", u), "MEMBER_OF", e.from)
            /\ \E p \in PermSetIds :
                PermSetArn[p] = e.arn /\ get_permission_type(PermSetName[p]) = "rw"}

\* C13: high_risk_users is the number of users who hold ReadWrite access on
\* more than 5 distinct Production accounts and on more than 5 distinct
\* Non-Production accounts.
C13_HighRiskUsersCount ==
    ToxicDone =>
        result.out.statistics.high_risk_users
            = Cardinality({u \in UserIds :
                /\ Cardinality(ReadWriteAccounts(graph, u, "Production")) > HighRiskLimit
                /\ Cardinality(ReadWriteAccounts(graph, u, "Non-Production"))
                        > HighRiskLimit})

----------------------------------------------------------------------------
(* InsightsSpec: build_report.main, the organization-wide DataFrame and    *)
(* the analyses generate_security_insights runs over it                    *)

\* df_org has been collected and is not empty
OrgDataCollected ==
    result.op = "get_org_access_data" /\ result.out # EmptyFrame

\* insights['access_overlap']
AnalyzeAccessOverlap ==
    /\ OrgDataCollected
    /\ result' = Outcome("analyze_access_overlap", result.out, FALSE, result.storeError,
                         analyze_access_overlap(result.out))
    /\ UNCHANGED <<graph, name>>

\* insights['group_patterns']
AnalyzeGroupPatterns ==
    /\ OrgDataCollected
    /\ result' = Outcome("analyze_group_patterns", result.out, FALSE, result.storeError,
                         analyze_group_patterns(result.out))
    /\ UNCHANGED <<graph, name>>

\* df.groupby('Username')['Environment'].agg(set).to_dict()
UserEnvAccess(df) ==
    [u \in Column(df, "Username") |->
        {df[i].Environment : i \in {r \in DOMAIN df : df[r].Username = u}}]

\* the users of user_env_access appended to the list of one combination by
\* the if / elif chain (the lists are kept as sets of user names)
EnvCombination(user_env_access, combination) ==
    {u \in DOMAIN user_env_access :
        combination =
            IF "Production" \in user_env_access[u]
                    /\ "Non-Productiotion" \in user_env_access[u]
                THEN "prod_and_nonprod"
            ELSE IF "Production" \in user_env_access[u]
                    /\ Cardinality(user_env_access[u]) = 1
                THEN "only_prod"
            ELSE IF "Non-Production" \in user_env_access[u]
                    /\ Cardinality(user_env_access[u]) = 1
                THEN "only_nonprod"
            ELSE "other"}

\* analyze_environment_access(df)
analyze_environment_access(df) ==
    [env_per_user     |-> UserEnvAccess(df),
     users_all_envs   |->
        {u \in Column(df, "Username") :
            /\ UserEnvAccess(df)[u] = Column(df, "Environment")
            /\ Cardinality(UserEnvAccess(df)[u]) > 1},
     env_combinations |->
        [c \in {"prod_and_nonprod", "only_prod", "only_nonprod", "other"} |->
            EnvCombination(UserEnvAccess(df), c)]]

\* insights['environment_access']
AnalyzeEnvironmentAccess ==
    /\ OrgDataCollected
    /\ result' = Outcome("analyze_environment_access", result.out, FALSE, result.storeError,
                         analyze_environment_access(result.out))
    /\ UNCHANGED <<graph, name>>

InsightsNext ==
    \/ GetOrgAccessData
    \/ AnalyzeAccessOverlap
    \/ AnalyzeEnvironmentAccess
    \/ AnalyzeGroupPatterns

InsightsSpec == Init /\ [][InsightsNext]_vars

\* the users who are members of group g
MembersOf(G, g) ==
    {u \in UserIds : HasEdge(G, Vertex("User", u), "MEMBER_OF", Vertex("Group", g))}

\* C14: the overlap matrix is indexed by the groups and its entry for G1 and
\* G2 is, in both orders, the number of users who are members of both; the
\* entry for G and G is the number of members of G.
C14_OverlapMatrixByGroups ==
    result.op = "analyze_access_overlap" =>
        \A g1, g2 \in Column(result.arg, "Group") :
            /\ <<g1, g2>> \in DOMAIN result.out.matrix
            /\ result.out.matrix[<<g1, g2>>]
                    = Cardinality(MembersOf(graph, g1) \cap MembersOf(graph, g2))
            /\ result.out.matrix[<<g2, g1>>] = result.out.matrix[<<g1, g2>>]

\* C15: every Group of the graph without any member is listed in
\* empty_groups.
C15_MemberlessGroupsListed ==
    result.op = "analyze_group_patterns" =>
        \A g \in GroupIds :
            MembersOf(graph, g) = {} => g \in result.out.empty_groups

\* C16: a group is listed in single_user_groups exactly when exactly one
\* distinct user is a member of it, and no group is listed both in
\* empty_groups and in single_user_groups.
C16_SingleUserGroupsExact ==
    result.op = "analyze_group_patterns" =>
        /\ \A g \in GroupIds :
                g \in result.out.single_user_groups
                    <=> Cardinality(MembersOf(graph, g)) = 1
        /\ result.out.empty_groups \cap result.out.single_user_groups = {}

----------------------------------------------------------------------------
(* SparseSpec: analyze_toxic_combinations over organizations that lack     *)
(* users or accounts                                                       *)

\* the users of userIds that are members of GroupA, one edge each
SparseMemberships(members) ==
    [ug \in UserIds \X GroupIds |->
        IF ug[1] \in members /\ ug[2] = "GroupA" THEN 1 ELSE 0]

\* the graph of an organization with the users userIds and the accounts
\* accountIds: members are the users in GroupA, and GroupA is assigned
\* "SecurityAdmin-FullAccess" on the accounts assigned
SparseGraph(userIds, accountIds, members, assigned) ==
    [V |-> AllVertices(accountIds) \ {Vertex("User", u) : u \in UserIds \ userIds},
     E |-> CollectedGraph(accountIds, SparseMemberships(members),
                          {<<"GroupA", a, "psAdmin">> : a \in assigned}).E]

SparseInit ==
    /\ \E userIds \in SUBSET UserIds, accountIds \in SUBSET AccountIds :
       \E members \in SUBSET userIds, assigned \in SUBSET accountIds :
            graph = SparseGraph(userIds, accountIds, members, assigned)
    /\ name = <<>>
    /\ result = NoResult

SparseSpec == SparseInit /\ [][ToxicNext]_vars

\* C17: when no traversal fails, analyze_toxic_combinations returns its
\* findings, also for a graph without users, without accounts, without
\* Production accounts or without Non-Production accounts.
C17_ZeroDenominatorsReturn ==
    (result.op = "analyze_toxic_combinations" /\ ~result.storeError) => ~result.raised

----------------------------------------------------------------------------
(* PartialSpec: get_user_data over a graph loaded from a dump in which an  *)
(* account has no name                                                     *)

\* a named account and the account without name
PartialAccounts == {"acct1", UnnamedAccount}

PartialInit ==
    /\ \E m \in Memberships :
       \E assignments \in BoundedSubsets(GroupIds \X PartialAccounts \X PermSetIds,
                                         MaxAssignments) :
            graph = CollectedGraph(PartialAccounts, m, assignments)
    /\ name = <<>>
    /\ result = NoResult

PartialNext == GetUserData

PartialSpec == PartialInit /\ [][PartialNext]_vars

\* C18: get_user_data returns, without raising, the grants of the user whose
\* group, account and permission set can be named, and drops the grants in
\* which one of them has no name.
C18_UnnamedGrantsDropped ==
    (result.op = "get_user_data" /\ ~result.storeError /\ result.arg \in UserIds) =>
        /\ ~result.raised
        /\ ExpectedGrants(graph, result.arg) \subseteq MatrixTriples(result.out.access_matrix)
        /\ \A i \in DOMAIN result.out.access_matrix :
                result.out.access_matrix[i].account # AccountName[UnnamedAccount]

\* the number of accounts of G the classification loop puts in the list
\* class ("prod" or "nonprod")
ClassifiedAccounts(G, class) ==
    Cardinality({a \in AccountVertices(G) : ToxicAccountClass(AccountName[a.id]) = class})

CodeOrder ==
    <<" ", "-", "/">> \o UpperAlphabet \o <<"_">> \o LowerAlphabet

CodePoint(c) == CHOOSE i \in DOMAIN CodeOrder : CodeOrder[i] = c

\* a < b for two strings
StrLess(a, b) ==
    \E k \in 1..(Len(a) + 1) :
        /\ k <= Len(b)
        /\ \A h \in 1..(k - 1) : a[h] = b[h]
        /\ (k = Len(a) + 1 \/ CodePoint(a[k]) < CodePoint(b[k]))

\* the user names, letter by letter
Spelling(u) ==
    CASE u = "alice" -> <<"a","l","i","c","e">>
      [] u = "bob"   -> <<"b","o","b">>
      [] OTHER       -> <<"n","o","b","o","d","y">>

\* k1 <= k2 for two sort keys <<user, account, permission set>>
KeyLeq(k1, k2) ==
    \/ StrLess(k1[1], k2[1])
    \/ k1[1] = k2[1] /\ StrLess(k1[2], k2[2])
    \/ k1[1] = k2[1] /\ k1[2] = k2[2] /\ (k1[3] = k2[3] \/ StrLess(k1[3], k2[3]))

Sorted(keys) == \A i, j \in DOMAIN keys : i < j => KeyLeq(keys[i], keys[j])

\* C20: the grants returned by get_user_data, get_access_data and
\* get_org_access_data are in the order of user, then account, then
\* permission set, in whatever order the store enumerates vertices and edges.
C20_GrantsAreSorted ==
    /\ (result.op = "get_user_data" /\ ~result.raised) =>
            Sorted([i \in DOMAIN result.out.access_matrix |->
                        <<Spelling(result.out.username),
                          result.out.access_matrix[i].account,
                          result.out.access_matrix[i].permission_set>>])
    /\ result.op = "get_access_data" =>
            Sorted([i \in DOMAIN result.out |->
                        <<Spelling(result.arg), result.out[i].Account,
                          result.out[i].PermissionSetName>>])
    /\ result.op = "get_org_access_data" =>
            Sorted([i \in DOMAIN result.out |->
                        <<Spelling(result.out[i].Username), result.out[i].Account,
                          result.out[i].PermissionSetName>>])

----------------------------------------------------------------------------
(* Determinism of access resolution (Spec)                                 *)

\* C21: two access resolutions of the same user over the same graph produce
\* the same grants in the same order, whatever the order in which the store
\* enumerates vertices and edges: the result reached under one enumeration
\* order is the result under every other one.
C21_ResolutionIsDeterministic ==
    /\ (result.op = "get_user_data" /\ ~result.storeError) =>
            \A ord \in StoreOrders(graph) :
                get_user_data(graph, ord, result.arg, FALSE) = result
    /\ (result.op = "get_access_data" /\ ~result.storeError) =>
            \A ord \in StoreOrders(graph) :
                get_access_data(graph, ord, result.arg, FALSE) = result

----------------------------------------------------------------------------
(* generate_report: OrganizationReport._collect_data                       *)

\* a defaultdict(int) after one increment per element of seq
Tally(seq) ==
    [x \in SeqRange(seq) |-> Cardinality({i \in DOMAIN seq : seq[i] = x})]

\* the groups visited by the loop over the groups of each of the users
VisitedGroups(G, ord, users) ==
    Flatten([i \in DOMAIN users |-> Out(G, ord, users[i], "MEMBER_OF")])

\* the accounts visited by the loop over the accounts of each of the groups
VisitedAccounts(G, ord, groups) ==
    Flatten([i \in DOMAIN groups |-> Out(G, ord, groups[i], "HAS_ACCESS_TO")])

\* the pattern counted for the i-th user: the number of the user's group
\* names and the number of keys account_access_counts holds by then
AccessPattern(G, ord, users, i) ==
    <<Cardinality(SeqRange(PropertyList(Out(G, ord, users[i], "MEMBER_OF"), "groupName"))),
      Cardinality(SeqRange(PropertyList(
          VisitedAccounts(G, ord, VisitedGroups(G, ord, SubSeq(users, 1, i))),
          "accountName")))>>

\* the fields of the report after the loops over groups, accounts, matrix
CollectedFields(G, ord, users, groups, accounts, matrix) ==
    [user_count              |-> Len(users),
     all_groups              |-> SeqRange(PropertyList(groups, "groupName")),
     all_accounts            |-> SeqRange(PropertyList(accounts, "accountName")),
     all_permission_sets     |-> {matrix[i].permission_set : i \in DOMAIN matrix},
     group_membership_counts |-> Tally(PropertyList(groups, "groupName")),
     account_access_counts   |-> Tally(PropertyList(accounts, "accountName")),
     environment_distribution |->
        Tally([i \in DOMAIN accounts |->
                  determine_environment(Head(Values(accounts[i], "accountName")))]),
     permission_set_usage    |-> Tally([i \in DOMAIN matrix |-> matrix[i].permission_set]),
     user_access_patterns    |->
        Tally([i \in DOMAIN users |-> AccessPattern(G, ord, users, i)])]

\* OrganizationReport._collect_data(); storeError: a traversal raises.  A
\* values(key).next() that finds no value raises StopIteration; the except
\* clause prints and re-raises.
OrganizationReport_collect_data(G, ord, storeError) ==
    IF \/ storeError
       \/ \E v \in SeqRange(VerticesOf(G, ord, "User")) : Values(v, "email") = <<>>
       \/ UserDataLookupFails(G, ord, VisitedGroups(G, ord, VerticesOf(G, ord, "User")))
    THEN Outcome("_collect_data", "", TRUE, storeError, <<>>)
    ELSE Outcome("_collect_data", "", FALSE, storeError,
            CollectedFields(G, ord, VerticesOf(G, ord, "User"),
                VisitedGroups(G, ord, VerticesOf(G, ord, "User")),
                VisitedAccounts(G, ord, VisitedGroups(G, ord, VerticesOf(G, ord, "User"))),
                UserAccessMatrix(G, ord, VisitedGroups(G, ord, VerticesOf(G, ord, "User")))))

----------------------------------------------------------------------------
(* AnalysisSpec: any one of the analysis operations run against a loaded   *)
(* graph                                                                   *)

\* a run that issues g.V().drop() among its traversals
CollectData_Dropping ==
    /\ result = NoResult
    /\ \E ord \in StoreOrders(graph) :
       \E storeError \in BOOLEAN :
            result' = OrganizationReport_collect_data(graph, ord, storeError)
    /\ graph' = EmptyGraph
    /\ UNCHANGED name

\* generate_report.main: OrganizationReport(g).generate_report()
CollectData ==
    /\ result = NoResult
    /\ \E ord \in StoreOrders(graph) :
       \E storeError \in BOOLEAN :
            result' = OrganizationReport_collect_data(graph, ord, storeError)
    /\ UNCHANGED <<graph, name>>

AnalysisNext ==
    \/ GetUserData
    \/ CollectData
    \/ GetAccessData
    \/ GetOrgAccessData
    \/ AnalyzeToxicCombinations

AnalysisSpec == Init /\ [][AnalysisNext]_vars

\* C22: get_user_data, OrganizationReport._collect_data, get_access_data,
\* get_org_access_data and analyze_toxic_combinations leave the graph
\* unchanged: its vertices, edges and their properties are the same after
\* any of them as before, on success and on failure.
C22_AnalysesLeaveGraphUnchanged ==
    [][graph' = graph]_vars

\* an analysis has failed over a graph that holds grants
C22_Witness ==
    /\ result.op \in {"get_user_data", "_collect_data", "analyze_toxic_combinations"}
    /\ result.raised /\ result.storeError
    /\ \E e \in DOMAIN graph.E : e.label = "HAS_ACCESS_TO"

----------------------------------------------------------------------------
(* Claims about analyze_environment_access (InsightsSpec)                  *)

\* C23: every user whose set of environments contains both Production and
\* Non-Production is listed in env_combinations['prod_and_nonprod'], and a
\* user is listed there only in that case.
C23_ProdAndNonProdListed ==
    result.op = "analyze_environment_access" =>
        \A u \in Column(result.arg, "Username") :
            u \in result.out.env_combinations["prod_and_nonprod"]
                <=> {"Production", "Non-Production"} \subseteq result.out.env_per_user[u]

----------------------------------------------------------------------------
(* The two access resolutions compared (Spec)                              *)

\* the grants get_access_data read from the HAS_ACCESS_TO edges
RowTriples(df) ==
    {<<df[i].Group, df[i].Account, df[i].PermissionSet>> : i \in DOMAIN df}

\* C24: over a graph built as the collector builds it (one HAS_PERMISSION
\* edge and one HAS_ACCESS_TO edge carrying permissionSetArn for every
\* assignment), every (group, account, permission set) grant get_access_data
\* reads from the HAS_ACCESS_TO edges of a user's groups is also among the
\* grants get_user_data computes for that user.
C24_JoinCoversAssignments ==
    (result.op = "get_access_data" /\ result.out # EmptyFrame) =>
        \A ord \in StoreOrders(graph) :
            /\ ~get_user_data(graph, ord, result.arg, FALSE).raised
            /\ RowTriples(result.out) \subseteq
                    MatrixTriples(get_user_data(graph, ord, result.arg, FALSE).out.access_matrix)

\* a group assigned two permission sets, each on its own account: the join
\* holds the two assignments and the two pairs that were never assigned
C24_Witness ==
    /\ result.op = "get_access_data"
    /\ Cardinality(RowTriples(result.out)) = 2
    /\ \E ord \in StoreOrders(graph) :
        Cardinality(MatrixTriples(
            get_user_data(graph, ord, result.arg, FALSE).out.access_matrix)) = 4

----------------------------------------------------------------------------
(* The dump: g_collect.py writes it, import_json_data.py loads it          *)

\* str.replace(pat, ''): every occurrence of pat is removed, left to right
RECURSIVE Remove(_, _)
Remove(s, pat) ==
    IF Len(s) < Len(pat) THEN s
    ELSE IF StartsWith(s, pat) THEN Remove(SubSeq(s, Len(pat) + 1, Len(s)), pat)
    ELSE <<Head(s)>> \o Remove(Tail(s), pat)

Prefix_USER == <<"U", "S", "E", "R", "_">>
Prefix_GROUP == <<"G", "R", "O", "U", "P", "_">>
Prefix_ACCOUNT == <<"A", "C", "C", "O", "U", "N", "T", "_">>
Prefix_PERMISSION_SET == <<"P", "E", "R", "M", "I", "S", "S", "I", "O", "N", "_", "S", "E", "T", "_">>

\* the prefix clean_entity_id treats as a special case
SpecialUserPrefix == <<"9", "0", "6", "7", "6", "c", "7", "3", "4", "f", "-">>

\* the identifiers the identity store, the organization and the SSO
\* instance hand to the collector
DumpUserIds == {<<"u", "1">>, <<"9", "0", "6", "7", "6", "c", "7", "3", "4", "f", "-", "u", "2">>}
DumpGroupId == <<"g", "1">>
DumpAccountId == <<"1", "1", "1">>
DumpPermissionSetArn == <<"a", "r", "n", "/", "p", "s">>

\* the timestamp property of an edge (datetime.now().isoformat())
Timestamp == "now"

\* _collect_users (userName and email are left out)
CollectedUser(UserId) ==
    [id |-> Prefix_USER \o UserId, label |-> "User",
     properties |-> [userId |-> UserId, type |-> "USER"]]

\* _collect_groups (groupName is left out)
CollectedGroup(GroupId) ==
    [id |-> Prefix_GROUP \o GroupId, label |-> "Group",
     properties |-> [groupId |-> GroupId, type |-> "GROUP"]]

\* _collect_accounts (accountName is left out)
CollectedAccount(account_id) ==
    [id |-> Prefix_ACCOUNT \o account_id, label |-> "Account",
     properties |-> [accountId |-> account_id, type |-> "ACCOUNT"]]

\* _collect_permission_sets (name and description are left out)
CollectedPermissionSet(pset_arn) ==
    [id |-> Prefix_PERMISSION_SET \o pset_arn, label |-> "PermissionSet",
     properties |-> [arn |-> pset_arn, type |-> "PERMISSION_SET"]]

\* _collect_group_memberships, as save_graph_data writes the edge
CollectedMembership(UserId, GroupId) ==
    [from |-> Prefix_USER \o UserId, to |-> Prefix_GROUP \o GroupId,
     label |-> "MEMBER_OF", properties |-> [timestamp |-> Timestamp]]

\* _collect_assignments: the HAS_PERMISSION edge of an assignment to a group
CollectedPermission(GroupId, pset_arn) ==
    [from |-> Prefix_GROUP \o GroupId, to |-> Prefix_PERMISSION_SET \o pset_arn,
     label |-> "HAS_PERMISSION", properties |-> [timestamp |-> Timestamp]]

\* _collect_assignments: the HAS_ACCESS_TO edge of an assignment to a group
CollectedAccess(GroupId, account_id, pset_arn) ==
    [from |-> Prefix_GROUP \o GroupId, to |-> Prefix_ACCOUNT \o account_id,
     label |-> "HAS_ACCESS_TO",
     properties |-> [permissionSetArn |-> pset_arn, timestamp |-> Timestamp]]

\* collect_data: the vertices in the order the collector appends them
DumpVertices ==
    <<CollectedUser(<<"u", "1">>), CollectedUser(<<"9", "0", "6", "7", "6", "c", "7", "3", "4", "f", "-", "u", "2">>), CollectedGroup(DumpGroupId),
      CollectedAccount(DumpAccountId), CollectedPermissionSet(DumpPermissionSetArn)>>

\* the edges the collector can append for these vertices
DumpEdges ==
    {CollectedMembership(u, DumpGroupId) : u \in DumpUserIds}
    \cup {CollectedPermission(DumpGroupId, DumpPermissionSetArn),
          CollectedAccess(DumpGroupId, DumpAccountId, DumpPermissionSetArn)}

----------------------------------------------------------------------------
(* import_json_data: load_vertices, clean_entity_id, load_edges_batch      *)

\* str.upper() of the type property or, without one, of the label
TypeUpper(t) ==
    CASE t = "User" -> "USER" [] t = "Group" -> "GROUP" [] t = "Account" -> "ACCOUNT"
      [] t = "PermissionSet" -> "PERMISSIONSET" [] OTHER -> t

\* vertex_type of load_vertices
VertexType(vertex) ==
    IF "type" \in DOMAIN vertex.properties /\ vertex.properties.type # ""
    THEN TypeUpper(vertex.properties.type)
    ELSE TypeUpper(vertex.label)

\* props.get(key, vertex_id.replace(prefix, ''))
IdProperty(vertex, key, prefix) ==
    IF key \in DOMAIN vertex.properties THEN vertex.properties[key]
    ELSE Remove(vertex.id, prefix)

\* the vertices the addV of load_vertices adds for a vertex of the dump:
\* none for a type that is none of the four
AddedVertices(vertex) ==
    CASE VertexType(vertex) = "USER" ->
            {Vertex("User", IdProperty(vertex, "userId", Prefix_USER))}
      [] VertexType(vertex) = "GROUP" ->
            {Vertex("Group", IdProperty(vertex, "groupId", Prefix_GROUP))}
      [] VertexType(vertex) = "ACCOUNT" ->
            {Vertex("Account", IdProperty(vertex, "accountId", Prefix_ACCOUNT))}
      [] VertexType(vertex) = "PERMISSION_SET" ->
            {Vertex("PermissionSet", IdProperty(vertex, "arn", Prefix_PERMISSION_SET))}
      [] OTHER -> {}

\* clean_entity_id(entity_id, entity_type)
clean_entity_id(entity_id, entity_type) ==
    CASE entity_type = "User" ->
            IF StartsWith(Remove(entity_id, Prefix_USER), SpecialUserPrefix)
            THEN Remove(Remove(entity_id, Prefix_USER), SpecialUserPrefix)
            ELSE Remove(entity_id, Prefix_USER)
      [] entity_type = "Group"         -> Remove(entity_id, Prefix_GROUP)
      [] entity_type = "Account"       -> Remove(entity_id, Prefix_ACCOUNT)
      [] entity_type = "PermissionSet" -> Remove(entity_id, Prefix_PERMISSION_SET)
      [] OTHER -> entity_id

\* edge_key of load_edges_batch: from, label, to and permissionSetArn ('' when
\* the edge has none), kept as a tuple
EdgeKey(edge) ==
    <<edge.from, edge.label, edge.to,
      IF "permissionSetArn" \in DOMAIN edge.properties
      THEN edge.properties.permissionSetArn ELSE <<>> >>

\* the label of the vertices load_edges_batch looks up for the source of an
\* edge of each label
SourceLabel(label) == IF label = "MEMBER_OF" THEN "User" ELSE "Group"

\* the edge an addE step of load_edges_batch adds
CleanedEdge(edge) ==
    Edge(Vertex(SourceLabel(edge.label),
                clean_entity_id(edge.from, SourceLabel(edge.label))),
         edge.label,
         Vertex(TargetLabel(edge.label),
                clean_entity_id(edge.to, TargetLabel(edge.label))),
         IF edge.label = "HAS_ACCESS_TO" THEN EdgeKey(edge)[4] ELSE NoArn)

\* addE(...).next()
AddE(G, e) ==
    [G EXCEPT !.E = IF e \in DOMAIN G.E THEN [G.E EXCEPT ![e] = @ + 1]
                    ELSE G.E @@ (e :> 1)]

\* the labels load_edges_batch has a branch for
KnownLabels == {"MEMBER_OF", "HAS_ACCESS_TO", "HAS_PERMISSION"}

\* the statements of the try block up to the addE raise: a traversal fails,
\* an endpoint is missing (the Exception raised for MEMBER_OF, StopIteration
\* or a server error otherwise) or a property the branch reads is missing
EdgeRaises(G, edge, storeError) ==
    /\ edge.label \in KnownLabels
    /\ \/ storeError
       \/ CleanedEdge(edge).from \notin G.V
       \/ CleanedEdge(edge).to \notin G.V
       \/ "timestamp" \notin DOMAIN edge.properties
       \/ edge.label = "HAS_ACCESS_TO" /\ "permissionSetArn" \notin DOMAIN edge.properties

\* the graph after the try block of one edge
GraphAfterEdge(G, edge, storeError) ==
    IF edge.label \in KnownLabels /\ ~EdgeRaises(G, edge, storeError)
    THEN AddE(G, CleanedEdge(edge)) ELSE G

\* the names bound in the module import_json_data when main runs
ModuleNames ==
    {"os", "json", "boto3", "argparse", "datetime", "traversal", "__", "T", "P",
     "Cardinality", "Endpoints", "GremlinUtils", "DEFAULTS", "ErrorLogger",
     "parse_arguments", "connect_to_neptune", "load_json_from_s3", "load_vertices",
     "clean_entity_id", "load_edges_batch", "clean_graph", "main"}

\* evaluating a call of the global name raises NameError
NameError(called) == called \notin ModuleNames

----------------------------------------------------------------------------
(* MainSpec: the main functions of generate_report, toxic and              *)
(* import_json_data, step by step; result.arg holds the arguments and      *)
(* result.out the local variables of the run                               *)

\* a dump holds at most this many edges
MaxDumpEdges == 2

\* at most this many store errors strike the loading of one dump
MaxStoreErrors == 1

\* at most this many memberships and this many assignments in the graph a
\* report is generated from
MaxReportEdges == 1

\* the values of --batch-size
BatchSizes == {1, 2}

\* edges.json: any list of edges, repeated edges included
DumpEdgeLists == UNION {[1..n -> DumpEdges] : n \in 0..MaxDumpEdges}

RECURSIVE LoadedVertices(_)
LoadedVertices(vertices) ==
    IF vertices = <<>> THEN {}
    ELSE AddedVertices(Head(vertices)) \cup LoadedVertices(Tail(vertices))

\* the store after an earlier load of a dump with one membership
StaleGraph ==
    AddE([V |-> LoadedVertices(DumpVertices), E |-> <<>>],
         CleanedEdge(CollectedMembership(<<"u", "1">>, DumpGroupId)))

MainArgs ==
    [program : {"import_json_data"}, clean : BOOLEAN, batch_size : BatchSizes,
     org_report : {FALSE}, email : {""}, toxic : {FALSE}]
    \cup [program : {"generate_report"}, clean : {FALSE}, batch_size : {1},
          org_report : {TRUE}, email : {""}, toxic : {FALSE}]
    \cup [program : {"generate_report"}, clean : {FALSE}, batch_size : {1},
          org_report : {FALSE}, email : UserIds \cup {UnknownUser, ""}, toxic : {FALSE}]
    \cup [program : {"toxic"}, clean : {FALSE}, batch_size : {1},
          org_report : {FALSE}, email : {""}, toxic : BOOLEAN]

\* the graphs a run of the program may find in the store
MainGraphs(program) ==
    IF program = "import_json_data" THEN {EmptyGraph, StaleGraph}
    ELSE {CollectedGraph(ResolutionAccounts, m, assignments) :
            m \in {b \in Memberships : BagSize(b, UserIds \X GroupIds) <= MaxReportEdges},
            assignments \in BoundedSubsets(GroupIds \X ResolutionAccounts \X PermSetIds,
                                           MaxReportEdges)}

\* the local variables when main starts.  attempts, skipped, added, dropped,
\* store_errors and edges_call record what the run has done so far
MainLocals ==
    [pc |-> "start", conn |-> "none", closes |-> 0,
     vertices |-> <<>>, edges |-> <<>>,
     vertex_attempts |-> 0, vertex_successful |-> 0, vertex_failed |-> 0,
     index |-> 0, processed_edges |-> {}, successful |-> 0, failed |-> 0,
     skipped |-> 0, added |-> <<>>, edge_attempts |-> 0,
     edges_call |-> "none", store_errors |-> 0, cleaned |-> FALSE, dropped |-> 0]

MainInit ==
    /\ \E args \in MainArgs :
        /\ graph \in MainGraphs(args.program)
        /\ result = Outcome("main", args, FALSE, FALSE, MainLocals)
    /\ name = <<>>

\* an exception leaves the try block of main: the except clause, where
\* there is one, prints and re-raises, and the finally clause is next
Raising(run) == [run EXCEPT !.raised = TRUE, !.out.pc = "finally"]

\* g, conn = connect_to_neptune(args): returns a connection or raises
ConnectToNeptune ==
    /\ result.op = "main" /\ result.out.pc = "start"
    /\ \E connected \in BOOLEAN :
        result' = IF connected
                  THEN [result EXCEPT !.out.pc = "connected", !.out.conn = "open"]
                  ELSE Raising(result)
    /\ UNCHANGED <<graph, name>>

\* the store after clean_graph when the statement failAt raises
GraphAfterClean_Kept(G, failAt) == G

GraphAfterClean(G, failAt) ==
    IF failAt \in {"count", "drop"} THEN G ELSE EmptyGraph

\* if args.clean: clean_graph(g)
CleanGraph ==
    /\ result.op = "main" /\ result.out.pc = "connected"
    /\ result.arg.program = "import_json_data" /\ result.arg.clean
    /\ \E failAt \in {"none", "count", "drop", "remaining"} :
        /\ graph' = GraphAfterClean(graph, failAt)
        /\ result' = IF failAt = "none"
                     THEN [result EXCEPT !.out.pc = "cleaned", !.out.cleaned = TRUE,
                                         !.out.dropped = Cardinality(graph.V)]
                     ELSE Raising(result)
    /\ UNCHANGED name

\* vertices, edges = load_json_from_s3(args): a list that cannot be read is
\* answered with []
LoadJsonFromS3 ==
    /\ result.op = "main" /\ result.arg.program = "import_json_data"
    /\ \/ result.out.pc = "cleaned"
       \/ result.out.pc = "connected" /\ ~result.arg.clean
    /\ \E vertices \in {DumpVertices, <<>>} :
       \E edges \in DumpEdgeLists :
        result' = [result EXCEPT !.out.pc = "load_vertices",
                                 !.out.vertices = vertices, !.out.edges = edges]
    /\ UNCHANGED <<graph, name>>

\* the local variables after one iteration of the loop of load_vertices
AfterVertex(run, storeError) ==
    IF storeError
    THEN [run EXCEPT !.out.vertex_attempts = @ + 1, !.out.vertex_failed = @ + 1,
                     !.out.store_errors = @ + 1]
    ELSE [run EXCEPT !.out.vertex_attempts = @ + 1, !.out.vertex_successful = @ + 1]

\* load_vertices: one iteration of the loop over the vertices
LoadVertex ==
    /\ result.op = "main" /\ result.out.pc = "load_vertices"
    /\ result.out.vertex_attempts < Len(result.out.vertices)
    /\ \E storeError \in BOOLEAN :
        /\ storeError => result.out.store_errors < MaxStoreErrors
        /\ graph' = IF storeError THEN graph
                    ELSE [graph EXCEPT !.V = @ \cup AddedVertices(
                            result.out.vertices[result.out.vertex_attempts + 1])]
        /\ result' = AfterVertex(result, storeError)
    /\ UNCHANGED name

\* load_vertices returns and load_edges_batch is called: without edges it
\* returns 0, 0 at once
StartLoadEdges ==
    /\ result.op = "main" /\ result.out.pc = "load_vertices"
    /\ result.out.vertex_attempts = Len(result.out.vertices)
    /\ result' = IF result.out.edges = <<>>
                 THEN [result EXCEPT !.out.pc = "finally", !.out.edges_call = "returned"]
                 ELSE [result EXCEPT !.out.pc = "load_edges", !.out.edges_call = "running"]
    /\ UNCHANGED <<graph, name>>

\* the try block of one edge has added it: the key is recorded, successful is
\* incremented and debug_log is called (line 282)
EdgeSucceeded(run, edge) ==
    [run EXCEPT !.out.index = @ + 1, !.out.edge_attempts = @ + 1,
                !.out.processed_edges = @ \cup {EdgeKey(edge)},
                !.out.successful = @ + 1,
                !.out.added = IF edge.label \in KnownLabels
                              THEN Append(@, EdgeKey(edge)) ELSE @]

\* the except clause of one edge: debug_log is called (line 284), then failed
\* is incremented and the error is logged
EdgeFailed(run, storeError) ==
    [run EXCEPT !.out.index = @ + 1, !.out.edge_attempts = @ + 1,
                !.out.failed = @ + 1,
                !.out.store_errors = IF storeError THEN @ + 1 ELSE @]

\* the call of debug_log in the except clause raises: the exception leaves
\* load_edges_batch before failed is incremented
HandlerRaised(run, storeError) ==
    Raising([run EXCEPT !.out.edges_call = "raised",
                        !.out.store_errors = IF storeError THEN @ + 1 ELSE @])

\* the loop goes on or, after the last edge, the summary is printed and
\* successful, failed are returned
NextEdge(run) ==
    IF run.out.index < Len(run.out.edges) THEN run
    ELSE [run EXCEPT !.out.pc = "finally", !.out.edges_call = "returned"]

\* one iteration of the loop body of load_edges_batch over edge, with the
\* store as it is before (G) and after (the edge added or not)
AfterEdge(run, G, edge, storeError) ==
    IF EdgeKey(edge) \in run.out.processed_edges
    THEN NextEdge([run EXCEPT !.out.index = @ + 1, !.out.skipped = @ + 1])
    ELSE IF EdgeRaises(G, edge, storeError)
    THEN IF NameError("debug_log")
         THEN HandlerRaised([run EXCEPT !.out.index = @ + 1, !.out.edge_attempts = @ + 1],
                            storeError)
         ELSE NextEdge(EdgeFailed(run, storeError))
    ELSE IF NameError("debug_log")
         THEN HandlerRaised(EdgeSucceeded(run, edge), FALSE)
         ELSE NextEdge(EdgeSucceeded(run, edge))

\* an iteration that neither consults processed_edges nor calls debug_log
LoadEdge_Unchecked ==
    /\ result.op = "main" /\ result.out.pc = "load_edges"
    /\ \E storeError \in BOOLEAN :
        /\ storeError => result.out.store_errors < MaxStoreErrors
        /\ graph' = GraphAfterEdge(graph, result.out.edges[result.out.index + 1], storeError)
        /\ result' = IF EdgeRaises(graph, result.out.edges[result.out.index + 1], storeError)
                     THEN NextEdge(EdgeFailed(result, storeError))
                     ELSE NextEdge(EdgeSucceeded(result,
                                        result.out.edges[result.out.index + 1]))
    /\ UNCHANGED name

\* load_edges_batch: one iteration of the loop over the edges of the batches
LoadEdge ==
    /\ result.op = "main" /\ result.out.pc = "load_edges"
    /\ \E storeError \in BOOLEAN :
        /\ storeError => result.out.store_errors < MaxStoreErrors
        /\ storeError => EdgeKey(result.out.edges[result.out.index + 1])
                                \notin result.out.processed_edges
        /\ graph' = IF EdgeKey(result.out.edges[result.out.index + 1])
                            \in result.out.processed_edges
                    THEN graph
                    ELSE GraphAfterEdge(graph, result.out.edges[result.out.index + 1],
                                        storeError)
        /\ result' = AfterEdge(result, graph, result.out.edges[result.out.index + 1],
                               storeError)
    /\ UNCHANGED name

\* generate_report.main: the organization report, the report of one user or
\* the hint to choose one; writeError: writing the report file raises
GenerateReport ==
    /\ result.op = "main" /\ result.out.pc = "connected"
    /\ result.arg.program = "generate_report"
    /\ \E ord \in StoreOrders(graph) :
       \E storeError, writeError \in BOOLEAN :
        result' =
            IF \/ result.arg.org_report
                    /\ (OrganizationReport_collect_data(graph, ord, storeError).raised
                            \/ writeError)
               \/ ~result.arg.org_report /\ result.arg.email # ""
                    /\ (get_user_data(graph, ord, result.arg.email, storeError).raised
                            \/ writeError)
            THEN Raising(result)
            ELSE [result EXCEPT !.out.pc = "finally"]
    /\ UNCHANGED <<graph, name>>

\* toxic.main: with --toxic the analysis and its report
GenerateToxicReport ==
    /\ result.op = "main" /\ result.out.pc = "connected"
    /\ result.arg.program = "toxic"
    /\ \E ord \in StoreOrders(graph) :
       \E storeError, writeError \in BOOLEAN :
        result' =
            IF result.arg.toxic
                /\ (analyze_toxic_combinations(graph, ord, storeError).raised \/ writeError)
            THEN Raising(result)
            ELSE [result EXCEPT !.out.pc = "finally"]
    /\ UNCHANGED <<graph, name>>

\* a finally clause without the call of close
Finally_NoClose ==
    /\ result.op = "main" /\ result.out.pc = "finally"
    /\ result' = [result EXCEPT !.out.pc = "exit"]
    /\ UNCHANGED <<graph, name>>

\* finally: if conn: conn.close()
Finally ==
    /\ result.op = "main" /\ result.out.pc = "finally"
    /\ result' = IF result.out.conn # "none"
                 THEN [result EXCEPT !.out.pc = "exit", !.out.conn = "closed",
                                     !.out.closes = @ + 1]
                 ELSE [result EXCEPT !.out.pc = "exit"]
    /\ UNCHANGED <<graph, name>>

MainNext ==
    \/ ConnectToNeptune
    \/ CleanGraph
    \/ LoadJsonFromS3
    \/ LoadVertex
    \/ StartLoadEdges
    \/ LoadEdge
    \/ GenerateReport
    \/ GenerateToxicReport
    \/ Finally

MainSpec == MainInit /\ [][MainNext]_vars

----------------------------------------------------------------------------
(* Claims about the loader and the main functions (MainSpec)               *)

C27_EdgeFailuresIsolated ==
    (result.op = "main" /\ result.out.edges # <<>>) =>
        /\ result.out.edges_call # "raised"
        /\ result.out.edges_call = "returned" =>
                result.out.successful + result.out.failed + result.out.skipped
                    = Len(result.out.edges)

\* C28: for every user the collector emits and every MEMBER_OF edge it emits
\* from that user, the identifier load_edges_batch obtains with
\* clean_entity_id equals the userId property load_vertices stored, so the
\* edge finds its User vertex and is created; also for a UserId beginning
\* with "90676c734f-".
C28_UserIdRoundTrip ==
    (/\ result.op = "main" /\ result.out.edge_attempts >= 1
     /\ result.out.store_errors = 0
     /\ result.out.vertices = DumpVertices
     /\ result.out.edges[1].label = "MEMBER_OF")
    => /\ Vertex("User", clean_entity_id(result.out.edges[1].from, "User")) \in graph.V
       /\ EdgeKey(result.out.edges[1]) \in SeqRange(result.out.added)

\* C29: whenever connect_to_neptune returned a connection, that connection
\* is closed exactly once before main exits, when the work completes and
\* when a later step raises; when connecting fails no close is attempted.
C29_ConnectionClosedOnce ==
    result.op = "main" =>
        /\ result.out.closes <= 1
        /\ result.out.conn = "none" => result.out.closes = 0
        /\ result.out.conn = "open" => result.out.closes = 0 /\ result.out.pc # "exit"
        /\ result.out.conn = "closed" => result.out.closes = 1

\* a step after connecting has raised and main has exited with the
\* connection closed
C29_Witness ==
    /\ result.op = "main" /\ result.out.pc = "exit"
    /\ result.raised /\ result.out.conn = "closed" /\ result.out.closes = 1

----------------------------------------------------------------------------
(* ConnectionSpec: neptune_connection.create_neptune_connection, called    *)
(* again and again by one caller; result.arg holds NEPTUNE_ENDPOINT and    *)
(* result.out the clients opened so far and the values returned so far     *)

\* the caller calls create_neptune_connection at most this many times
MaxCalls == 4

\* what a library call of the function does: it returns, raises
\* GremlinServerError or raises another Exception
CallOutcomes == {"returns", "GremlinServerError", "Exception"}

\* the value None among the returned values (clients are numbered from 1)
None == 0

ConnectionInit ==
    /\ \E endpoint \in {"", "db-neptune"} :
        result = Outcome("create_neptune_connection", endpoint, FALSE, FALSE,
                         [pc |-> "idle", calls |-> 0, clients |-> <<>>, returns |-> <<>>])
    /\ graph = EmptyGraph
    /\ name = <<>>

\* return value: the function returns to its caller
Returning(run, value) ==
    [run EXCEPT !.out.pc = "idle", !.out.returns = Append(@, value)]

\* the caller calls the function
CallCreateConnection ==
    /\ result.op = "create_neptune_connection" /\ result.out.pc = "idle"
    /\ result.out.calls < MaxCalls
    /\ result' = [result EXCEPT !.out.pc = "headers", !.out.calls = @ + 1]
    /\ UNCHANGED <<graph, name>>

\* headers = get_neptune_auth_headers(); both except clauses of the outer
\* try return None
GetAuthHeaders ==
    /\ result.op = "create_neptune_connection" /\ result.out.pc = "headers"
    /\ \E outcome \in CallOutcomes :
        result' = IF outcome = "returns" THEN [result EXCEPT !.out.pc = "endpoint"]
                  ELSE Returning(result, None)
    /\ UNCHANGED <<graph, name>>

\* if not NEPTUNE_ENDPOINT: return None
CheckEndpoint ==
    /\ result.op = "create_neptune_connection" /\ result.out.pc = "endpoint"
    /\ result' = IF result.arg = "" THEN Returning(result, None)
                 ELSE [result EXCEPT !.out.pc = "client"]
    /\ UNCHANGED <<graph, name>>

\* connection = client.Client(...)
OpenClient ==
    /\ result.op = "create_neptune_connection" /\ result.out.pc = "client"
    /\ \E outcome \in CallOutcomes :
        result' = IF outcome = "returns"
                  THEN [result EXCEPT !.out.pc = "verify",
                            !.out.clients = Append(@, [state |-> "open", verified |-> FALSE])]
                  ELSE Returning(result, None)
    /\ UNCHANGED <<graph, name>>

\* an inner except clause that returns None without closing the client
VerificationFailed_LeftOpen(run) == Returning(run, None)

\* the inner except clause: connection.close(); return None
VerificationFailed(run) ==
    Returning([run EXCEPT !.out.clients[Len(run.out.clients)].state = "closed"], None)

\* connection.submit('g.V().limit(1).count()').all().result(), then
\* return connection
VerifyConnection ==
    /\ result.op = "create_neptune_connection" /\ result.out.pc = "verify"
    /\ \E outcome \in CallOutcomes :
        result' = IF outcome = "returns"
                  THEN Returning([result EXCEPT
                            !.out.clients[Len(result.out.clients)].verified = TRUE],
                            Len(result.out.clients))
                  ELSE VerificationFailed(result)
    /\ UNCHANGED <<graph, name>>

ConnectionNext ==
    \/ CallCreateConnection
    \/ GetAuthHeaders
    \/ CheckEndpoint
    \/ OpenClient
    \/ VerifyConnection

ConnectionSpec == ConnectionInit /\ [][ConnectionNext]_vars

----------------------------------------------------------------------------
(* ClassifySpec: the classification functions applied to a name            *)

\* a name is made of at most this many tokens
MaxTokens == 2

NameTokens ==
    { <<"p","r","o","d">>, <<"P","R","O","D">>, <<"d","e","v">>, <<"t","e","s","t">>,
      <<"s","t","a","g">>, <<"e">>, <<"i","n","g">>, <<"n","o","n","-">>,
      <<"-","x">>, <<"R","e","a","d">>, <<"o","n","l","y">>, <<"-">>,
      <<"v","i","e","w">>, <<"e","r">>, <<"r","o">>, <<"s","h","a","r","e","d">> }

\* the names the specification gives as examples
SampleNames ==
    { <<"p","r","o","d","-","b","i","l","l","i","n","g">>,
      <<"d","e","v","-","s","a","n","d","b","o","x">>,
      <<"s","h","a","r","e","d","-","s","e","r","v","i","c","e","s">> }

RECURSIVE TokenNames(_)
TokenNames(n) ==
    IF n = 0 THEN {<<>>}
    ELSE LET shorter == TokenNames(n - 1)
         IN  shorter \cup {s \o t : s \in shorter, t \in NameTokens}

ClassifyInit ==
    /\ graph = EmptyGraph
    /\ name \in TokenNames(MaxTokens) \cup SampleNames
    /\ result = NoResult

\* generate_report: determine_environment(account_name)
DetermineEnvironment ==
    /\ result = NoResult
    /\ result' = Outcome("determine_environment", "", FALSE, FALSE,
                         determine_environment(name))
    /\ UNCHANGED <<graph, name>>

\* build_report.get_access_data: the 'Environment' column of a row
RowEnvironment ==
    /\ result = NoResult
    /\ result' = Outcome("row_environment", "", FALSE, FALSE, InlineEnvironment(name))
    /\ UNCHANGED <<graph, name>>

\* toxic: get_permission_type(permission_name)
GetPermissionType ==
    /\ result = NoResult
    /\ result' = Outcome("get_permission_type", "", FALSE, FALSE, get_permission_type(name))
    /\ UNCHANGED <<graph, name>>

\* toxic.analyze_toxic_combinations: access_type of a record whose
\* permission names are [name]
AccessTypeOfRecord ==
    /\ result = NoResult
    /\ result' = Outcome("access_type", "", FALSE, FALSE, InlineAccessType(<<name>>))
    /\ UNCHANGED <<graph, name>>

ClassifyNext ==
    DetermineEnvironment \/ RowEnvironment \/ GetPermissionType \/ AccessTypeOfRecord

ClassifySpec == ClassifyInit /\ [][ClassifyNext]_vars

----------------------------------------------------------------------------
(* Claims about the classification functions (ClassifySpec)                *)

Str_prod        == <<"p","r","o","d">>
Str_production  == <<"p","r","o","d","u","c","t","i","o","n">>
Str_dev         == <<"d","e","v">>
Str_development == <<"d","e","v","e","l","o","p","m","e","n","t">>
Str_test        == <<"t","e","s","t">>
Str_stage       == <<"s","t","a","g","e">>
Str_staging     == <<"s","t","a","g","i","n","g">>

\* the environment the data model gives a name
StatedEnvironment(n) ==
    IF \E k \in {Str_prod, Str_production} : Contains(Lower(n), k)
    THEN "Production"
    ELSE IF \E k \in {Str_dev, Str_development, Str_test, Str_stage, Str_staging} :
                Contains(Lower(n), k)
    THEN "Non-Production"
    ELSE "Other"

\* C8: determine_environment and the Environment column of get_access_data
\* give Production to a name containing "prod" or "production", else
\* Non-Production to a name containing one of "dev", "development", "test",
\* "stage", "staging", else Other.
C8_EnvironmentByKeywords ==
    result.op \in {"determine_environment", "row_environment"}
        => result.out = StatedEnvironment(name)

Str_readonly  == <<"r","e","a","d","o","n","l","y">>
Str_read_only == <<"r","e","a","d","-","o","n","l","y">>
Str_ro        == <<"r","o">>
Str_view      == <<"v","i","e","w">>
Str_viewer    == <<"v","i","e","w","e","r">>
Str_view_only == <<"v","i","e","w","-","o","n","l","y">>

\* the access level the data model gives a permission-set name
StatedAccessLevel(n) ==
    IF \E k \in {Str_readonly, Str_read_only, Str_ro, Str_view, Str_viewer, Str_view_only} :
            Contains(Lower(n), k)
    THEN "ro" ELSE "rw"

\* C9: get_permission_type and the access_type expression of
\* analyze_toxic_combinations both give ReadOnly to a name containing one of
\* readonly, read-only, ro, view, viewer, view-only and ReadWrite to every
\* other name.
C9_AccessLevelByKeywords ==
    result.op \in {"get_permission_type", "access_type"}
        => result.out = StatedAccessLevel(name)

====
